---- MODULE Spec2Model ----
(***************************************************************************)
(* The MathML-to-OMML converter of src/src/utils/DocxMathConverter.ts      *)
(* (lines 1..653): the expression tree walker walkNode, the fence resolver *)
(* of a row (case "mrow"), the operator classifiers, and the two entry     *)
(* points mathmlToDocx and convertLatexToMath.                             *)
(*                                                                         *)
(* Text is a sequence of UTF-16 code units.  An input node (a DOM Element) *)
(* is a record with a tagName field; an output node (an XmlComponent) is a *)
(* record with a kind field and no tagName.  A call's outcome is a record  *)
(* [thrown, val]: thrown = TRUE is an exception leaving the call.          *)
(***************************************************************************)
EXTENDS Integers, Sequences, FiniteSets, TLC

\* ------------------------------------------------------------ code units

LPAREN == 40
RPAREN == 41
LBRACK == 91
RBRACK == 93
LBRACE == 123
RBRACE == 125
VBAR == 124
DOT == 46
LOWER_L == 108
DVBAR == 8214
LANGLE == 10216
RANGLE == 10217
DIVIDES == 8739
ZWSP == 8203
SPACE == 32
COMBINING_LO == 768
COMBINING_HI == 879

Str(c) == <<c>>

\* ------------------------------------------------------------ classifiers

IntegralChars == {8747, 8748, 8749, 8750, 8751, 8752, 8753, 8754, 8755}

SumChars == {8721, 8719, 8720, 8896, 8897, 8898, 8899,
             10752, 10753, 10754, 10756, 10758}

\* mutant: the last code point of the integral family is left out
isIntegral_Short(text) == \E k \in 1 .. Len(text) : text[k] \in 8747 .. 8754

isIntegral(text) == \E k \in 1 .. Len(text) : text[k] \in IntegralChars

isSum(text) == \E k \in 1 .. Len(text) : text[k] \in SumChars

AccentList == {8594, 94, 710, 175, 713, 126, 732,
               768, 769, 770, 771, 772, 773, 774, 775, 776, 778, 780,
               8407, 729, 168}

isAccentChar(text) ==
    \/ (Len(text) = 1 /\ text[1] \in AccentList)
    \/ (Len(text) = 1 /\ text[1] >= COMBINING_LO /\ text[1] <= COMBINING_HI)

isPair(open, close) ==
    \/ (open = Str(LPAREN) /\ close = Str(RPAREN))
    \/ (open = Str(LBRACK) /\ close = Str(RBRACK))
    \/ (open = Str(LBRACE) /\ close = Str(RBRACE))
    \/ (open = Str(LANGLE) /\ close = Str(RANGLE))
    \/ (open = Str(DVBAR) /\ close = Str(DVBAR))
    \/ (open \in {Str(VBAR), Str(DIVIDES)} /\ close \in {Str(VBAR), Str(DIVIDES)})

\* mutant: the marker is the fence character as it is
normalizeFence_Identity(ch) == ch

normalizeFence(ch) ==
    IF ch = Str(DOT) THEN <<>>
    ELSE IF Len(ch) > 0 /\ ch[1] = DIVIDES THEN Str(VBAR)
    ELSE ch

\* ------------------------------------------------------------ input tree

\* undefined / null where an Element is expected
Null == [null |-> TRUE]

\* a leaf Element: its own text, the fence and accent attributes
Leaf(tag, text, fence, accent) ==
    [tagName |-> tag, text |-> text, fence |-> fence, accent |-> accent,
     open |-> <<>>, close |-> <<>>, children |-> <<>>]

\* an Element with child Elements
Elem(tag, children) ==
    [tagName |-> tag, text |-> <<>>, fence |-> FALSE, accent |-> FALSE,
     open |-> <<>>, close |-> <<>>, children |-> children]

\* node.getAttribute(name) || dflt.  What getAttribute returns is <<>> for an
\* absent attribute (null) and <<value>> for one that is present; null and the
\* empty text are both falsy and give the default
attrOr(attr, dflt) ==
    IF attr = <<>> THEN dflt
    ELSE IF attr[1] = <<>> THEN dflt
    ELSE attr[1]

IsElement(x) == "tagName" \in DOMAIN x

RECURSIVE textContent(_)
RECURSIVE textContentAll(_)
textContentAll(children) ==
    IF children = <<>> THEN <<>>
    ELSE textContent(Head(children)) \o textContentAll(Tail(children))

textContent(node) == node.text \o textContentAll(node.children)

isFence(node) ==
    IF node.tagName # "mo" THEN FALSE
    ELSE IF node.fence THEN TRUE
    ELSE textContent(node) \in
           {Str(LPAREN), Str(RPAREN), Str(LBRACK), Str(RBRACK), Str(LBRACE),
            Str(RBRACE), Str(VBAR), Str(DVBAR), Str(LANGLE), Str(RANGLE),
            Str(DOT)}

\* ------------------------------------------------------------ output tree

MathRun(text) == [kind |-> "run", text |-> text]

MathFraction(num, den) == [kind |-> "frac", numerator |-> num, denominator |-> den]

MathSuperScript(base, sup) == [kind |-> "sup", children |-> base, superScript |-> sup]

MathSubScript(base, sub) == [kind |-> "sub", children |-> base, subScript |-> sub]

MathSubSuperScript(base, sub, sup) ==
    [kind |-> "subsup", children |-> base, subScript |-> sub, superScript |-> sup]

MathRadical(base, degree) == [kind |-> "rad", children |-> base, degree |-> degree]

MathLimitUpper(base, limit) == [kind |-> "limUpp", children |-> base, limit |-> limit]

MathLimitLower(base, limit) == [kind |-> "limLow", children |-> base, limit |-> limit]

MathAccent(base, accent) == [kind |-> "acc", children |-> base, accent |-> accent]

MathDelimiter(children, begChr, endChr) ==
    [kind |-> "delim", body |-> children, begChr |-> begChr, endChr |-> endChr]

MathElement(children) == [kind |-> "e", children |-> children]

MathMatrixRow(cells) == [kind |-> "mr", cells |-> cells]

MathMatrix(rows) == [kind |-> "m", rows |-> rows]

\* the base element holds the zero-width run when no child is given
MathNary(char, limitLocation, subScript, superScript, children) ==
    [kind |-> "nary", char |-> char, limitLocation |-> limitLocation,
     subScript |-> subScript, superScript |-> superScript,
     baseElement |-> IF Len(children) > 0 THEN children
                     ELSE <<MathRun(Str(ZWSP))>>]

IsNary(x) == "kind" \in DOMAIN x /\ x.kind = "nary"

getLastBaseChild(nary) == nary.baseElement[Len(nary.baseElement)]

\* ------------------------------------------------------------ outcomes

Ok(nodes) == [thrown |-> FALSE, val |-> nodes]

Throw == [thrown |-> TRUE, val |-> <<>>]

\* ------------------------------------------------------------ row resolver

\* mutant: the item goes to the first operator's base, with no dive
addChildToDeepest_NoDive(nary, item) ==
    [nary EXCEPT !.baseElement = Append(nary.baseElement, item)]

\* mutant: the item is put in front of what the base element holds
addChildToDeepest_Prepend(nary, item) ==
    [nary EXCEPT !.baseElement = <<item>> \o nary.baseElement]

RECURSIVE addChildToDeepest(_, _)
\* the dive of appendToContext: follow the trailing chain of N-ary operators
\* and add the item to the base element of the deepest one
addChildToDeepest(nary, item) ==
    LET n == Len(nary.baseElement)
        innerLast == getLastBaseChild(nary)
    IN  IF IsNary(innerLast)
        THEN [nary EXCEPT !.baseElement =
                 [nary.baseElement EXCEPT ![n] = addChildToDeepest(innerLast, item)]]
        ELSE [nary EXCEPT !.baseElement = Append(nary.baseElement, item)]

\* mutant: no absorption, the item is always pushed as a sibling
appendToContext_NoAbsorb(container, item) == Append(container, item)

\* mutant: the item is absorbed only while the operator's base holds nothing
\* but the zero-width run
appendToContext_OnlyEmpty(container, item) ==
    IF /\ Len(container) > 0
       /\ IsNary(container[Len(container)])
       /\ container[Len(container)].baseElement = <<MathRun(Str(ZWSP))>>
    THEN [container EXCEPT ![Len(container)] =
             addChildToDeepest(container[Len(container)], item)]
    ELSE Append(container, item)

appendToContext(container, item) ==
    IF Len(container) > 0 /\ IsNary(container[Len(container)])
    THEN [container EXCEPT ![Len(container)] =
             addChildToDeepest(container[Len(container)], item)]
    ELSE Append(container, item)

RECURSIVE appendAllToContext(_, _)
\* nodes.forEach(n => appendToContext(targetStack, n))
appendAllToContext(container, nodes) ==
    IF nodes = <<>> THEN container
    ELSE appendAllToContext(appendToContext(container, Head(nodes)), Tail(nodes))

\* a frame of the fence stack
Frame(startNode, openChar) ==
    [startNode |-> startNode, children |-> <<>>, openChar |-> openChar]

\* the state of one row: the fence stack, the row's result, and whether an
\* exception has left the row
RowState(stack, result, thrown) ==
    [stack |-> stack, result |-> result, thrown |-> thrown]

RowStart == RowState(<<>>, <<>>, FALSE)

RowThrow(st) == [st EXCEPT !.thrown = TRUE]

Top(stack) == stack[Len(stack)]

Pop(stack) == SubSeq(stack, 1, Len(stack) - 1)

\* stack[stack.length - 1].children.push(item), or result.push(item)
pushToTarget(stack, result, item) ==
    IF Len(stack) > 0
    THEN RowState([stack EXCEPT ![Len(stack)].children = Append(@, item)],
                  result, FALSE)
    ELSE RowState(stack, Append(result, item), FALSE)

\* appendToContext on the top frame's children, or on result
appendToTarget(stack, result, nodes) ==
    IF Len(stack) > 0
    THEN RowState([stack EXCEPT ![Len(stack)].children =
                      appendAllToContext(@, nodes)], result, FALSE)
    ELSE RowState(stack, appendAllToContext(result, nodes), FALSE)

isOpenerChar(char) ==
    char \in {Str(LPAREN), Str(LBRACK), Str(LBRACE), Str(LANGLE), Str(DVBAR)}
    \/ char = Str(LOWER_L)

isCloserChar(char) ==
    char \in {Str(RPAREN), Str(RBRACK), Str(RBRACE), Str(RANGLE)}

isAmbiguousChar(char) ==
    char \in {Str(VBAR), Str(DVBAR), Str(DOT), Str(DIVIDES)}

fenceAction(stack, char) ==
    IF isOpenerChar(char) THEN "open"
    ELSE IF isCloserChar(char) THEN "close"
    ELSE IF isAmbiguousChar(char)
         THEN IF Len(stack) > 0 /\ Top(stack).openChar = char
              THEN "close" ELSE "open"
    ELSE "text"

\* the look down the stack for a frame that pairs with the closer
foundPair(stack, char) ==
    \E j \in 1 .. Len(stack) : isPair(stack[j].openChar, char)

RECURSIVE walkNode(_)
RECURSIVE walkChildren(_)
RECURSIVE autoClose(_, _, _)
RECURSIVE rowLoop(_, _, _)
RECURSIVE rowFinish(_)

\* the auto-closed frame becomes a Delimiter with an empty close marker, pushed
\* on the frame below it (or on result); w is walkChildren of its children
autoCloseEmit(w, stack, result, char) ==
    IF w.thrown THEN RowState(Pop(stack), result, TRUE)
    ELSE autoClose(
           pushToTarget(Pop(stack), result,
                        MathDelimiter(w.val, normalizeFence(Top(stack).openChar),
                                      <<>>)).stack,
           pushToTarget(Pop(stack), result,
                        MathDelimiter(w.val, normalizeFence(Top(stack).openChar),
                                      <<>>)).result,
           char)

\* "Close everything up to the match"
autoClose(stack, result, char) ==
    IF Len(stack) = 0 THEN RowState(stack, result, FALSE)
    ELSE IF isPair(Top(stack).openChar, char) THEN RowState(stack, result, FALSE)
    ELSE autoCloseEmit(walkChildren(Top(stack).children), stack, result, char)

\* the "Handle Mismatched Close" block
mismatchedClose(st, char, action) ==
    IF /\ action = "close"
       /\ Len(st.stack) > 0
       /\ ~isPair(Top(st.stack).openChar, char)
       /\ ~isAmbiguousChar(char)
       /\ foundPair(st.stack, char)
    THEN autoClose(st.stack, st.result, char)
    ELSE st

\* the popped frame's Delimiter goes to the new top through appendToContext;
\* w is walkChildren of the popped frame's children
closeEmit(w, st, char) ==
    IF w.thrown THEN RowState(Pop(st.stack), st.result, TRUE)
    ELSE appendToTarget(Pop(st.stack), st.result,
             <<MathDelimiter(w.val, normalizeFence(Top(st.stack).openChar),
                             normalizeFence(char))>>)

\* the standard close: pop the top frame and emit its Delimiter
closeTop(st, char) == closeEmit(walkChildren(Top(st.stack).children), st, char)

\* nodes.forEach(n => appendToContext(targetStack, n)); w is walkNode(child)
appendWalked(w, st) ==
    IF w.thrown THEN RowThrow(st)
    ELSE appendToTarget(st.stack, st.result, w.val)

\* "Unmatched close fence, treat as text": nodes.forEach(n => result.push(n))
pushWalked(w, st) ==
    IF w.thrown THEN RowThrow(st)
    ELSE RowState(st.stack, st.result \o w.val, FALSE)

\* the open / close / text branches, after the mismatched-close block left st1
fenceBranch(st1, child, char, action) ==
    IF st1.thrown THEN st1
    ELSE IF action = "open"
    THEN RowState(Append(st1.stack, Frame(child, char)), st1.result, FALSE)
    ELSE IF action = "close"
    THEN IF Len(st1.stack) > 0 THEN closeTop(st1, char)
         ELSE pushWalked(walkNode(child), st1)
    ELSE appendWalked(walkNode(child), st1)

\* one iteration of the loop over the row's children
rowStep(st, child) ==
    IF isFence(child)
    THEN fenceBranch(mismatchedClose(st, textContent(child),
                                     fenceAction(st.stack, textContent(child))),
                     child, textContent(child),
                     fenceAction(st.stack, textContent(child)))
    ELSE appendWalked(walkNode(child), st)

\* a frame left open becomes a Delimiter with an empty close marker
finishEmit(w, st) ==
    IF w.thrown THEN RowState(Pop(st.stack), st.result, TRUE)
    ELSE rowFinish(appendToTarget(Pop(st.stack), st.result,
             <<MathDelimiter(w.val, normalizeFence(Top(st.stack).openChar), <<>>)>>))

\* "Close any remaining open fences"
rowFinish(st) ==
    IF st.thrown \/ Len(st.stack) = 0 THEN st
    ELSE finishEmit(walkChildren(Top(st.stack).children), st)

rowLoop(st, children, k) ==
    IF st.thrown THEN st
    ELSE IF k > Len(children) THEN rowFinish(st)
    ELSE rowLoop(rowStep(st, children[k]), children, k + 1)

\* ------------------------------------------------------------ tree walker

\* children[k] of a destructuring assignment: undefined past the end
ChildAt(children, k) == IF k <= Len(children) THEN children[k] ELSE Null

\* one output node built from walked slots; an exception in a slot leaves the call
Build1(wa, build(_)) ==
    IF wa.thrown THEN Throw ELSE Ok(<<build(wa.val)>>)

Build2(wa, wb, build(_, _)) ==
    IF wa.thrown \/ wb.thrown THEN Throw ELSE Ok(<<build(wa.val, wb.val)>>)

Build3(wa, wb, wc, build(_, _, _)) ==
    IF wa.thrown \/ wb.thrown \/ wc.thrown THEN Throw
    ELSE Ok(<<build(wa.val, wb.val, wc.val)>>)

\* result.concat(...)
Concat(wa, wb) ==
    IF wa.thrown \/ wb.thrown THEN Throw ELSE Ok(wa.val \o wb.val)

\* mutant: only the integral family gives an N-ary operator
walkMsubsup_NoSum(base, sub, sup) ==
    IF base = Null THEN Throw
    ELSE IF isIntegral(textContent(base))
    THEN Build2(walkNode(sub), walkNode(sup),
                LAMBDA s, p : MathNary(textContent(base), "subSup", s, p, <<>>))
    ELSE Build3(walkNode(base), walkNode(sub), walkNode(sup), MathSubSuperScript)

walkMsubsup(base, sub, sup) ==
    IF base = Null THEN Throw
    ELSE IF isIntegral(textContent(base))
    THEN Build2(walkNode(sub), walkNode(sup),
                LAMBDA s, p : MathNary(textContent(base), "subSup", s, p, <<>>))
    ELSE IF isSum(textContent(base))
    THEN Build2(walkNode(sub), walkNode(sup),
                LAMBDA s, p : MathNary(textContent(base), "subSup", s, p, <<>>))
    ELSE Build3(walkNode(base), walkNode(sub), walkNode(sup), MathSubSuperScript)

\* mutant: the over child's tag is not looked at
walkMover_AnyTag(base, over) ==
    IF over = Null THEN Throw
    ELSE IF over.accent \/ isAccentChar(textContent(over))
    THEN Build1(walkNode(base), LAMBDA b : MathAccent(b, textContent(over)))
    ELSE Build2(walkNode(base), walkNode(over), MathLimitUpper)

\* mutant: an over-only node with an integral or summation base gives an N-ary
\* operator
walkMover_NaryBase(base, over) ==
    IF over = Null THEN Throw
    ELSE IF base # Null /\ (isIntegral(textContent(base)) \/ isSum(textContent(base)))
    THEN Build1(walkNode(over),
                LAMBDA p : MathNary(textContent(base), "undOvr", <<>>, p, <<>>))
    ELSE IF over.tagName = "mo" /\ (over.accent \/ isAccentChar(textContent(over)))
    THEN Build1(walkNode(base), LAMBDA b : MathAccent(b, textContent(over)))
    ELSE Build2(walkNode(base), walkNode(over), MathLimitUpper)

walkMover(base, over) ==
    IF over = Null THEN Throw
    ELSE IF over.tagName = "mo" /\ (over.accent \/ isAccentChar(textContent(over)))
    THEN Build1(walkNode(base), LAMBDA b : MathAccent(b, textContent(over)))
    ELSE Build2(walkNode(base), walkNode(over), MathLimitUpper)

\* mutant: the under and the over child change places in the operator
walkMunderover_Swapped(base, under, over) ==
    IF base = Null THEN Throw
    ELSE IF isIntegral(textContent(base)) \/ isSum(textContent(base))
    THEN Build2(walkNode(over), walkNode(under),
                LAMBDA s, p : MathNary(textContent(base), "undOvr", s, p, <<>>))
    ELSE Build3(walkNode(base), walkNode(over), walkNode(under),
                LAMBDA b, o, u : MathLimitLower(<<MathLimitUpper(b, o)>>, u))

walkMunderover(base, under, over) ==
    IF base = Null THEN Throw
    ELSE IF isIntegral(textContent(base))
    THEN Build2(walkNode(under), walkNode(over),
                LAMBDA s, p : MathNary(textContent(base), "undOvr", s, p, <<>>))
    ELSE IF isSum(textContent(base))
    THEN Build2(walkNode(under), walkNode(over),
                LAMBDA s, p : MathNary(textContent(base), "undOvr", s, p, <<>>))
    ELSE Build3(walkNode(base), walkNode(over), walkNode(under),
                LAMBDA b, o, u : MathLimitLower(<<MathLimitUpper(b, o)>>, u))

RECURSIVE walkCells(_)
\* mutant: a row child that is not a cell is left out
walkCells_SkipBad(cells) ==
    IF cells = <<>> THEN Ok(<<>>)
    ELSE IF Head(cells).tagName = "mtd"
    THEN Concat(Build1(walkNode(Head(cells)), MathElement), walkCells(Tail(cells)))
    ELSE walkCells(Tail(cells))

walkCells(cells) ==
    IF cells = <<>> THEN Ok(<<>>)
    ELSE Concat(Build1(IF Head(cells).tagName = "mtd" THEN walkNode(Head(cells))
                       ELSE Ok(<<>>), MathElement),
                walkCells(Tail(cells)))

RECURSIVE walkRows(_)
walkRows(rows) ==
    IF rows = <<>> THEN Ok(<<>>)
    ELSE Concat(Build1(IF Head(rows).tagName = "mtr" THEN walkCells(Head(rows).children)
                       ELSE Ok(<<>>), MathMatrixRow),
                walkRows(Tail(rows)))

\* mutant: a leaf without text gives nothing
walkLeaf_Empty(node) ==
    IF textContent(node) = <<>> THEN Ok(<<>>) ELSE Ok(<<MathRun(textContent(node))>>)

\* mi, mn, mo, mtext, ms: one run of the node's text content
walkLeaf(node) == Ok(<<MathRun(textContent(node))>>)

rowOutcome(st) == IF st.thrown THEN Throw ELSE Ok(st.result)

walkMrow(children) == rowOutcome(rowLoop(RowStart, children, 1))

walkNode(node) ==
    IF node = Null THEN Ok(<<>>)
    ELSE IF ~IsElement(node) THEN Throw
    ELSE CASE node.tagName \in {"math", "mstyle"} -> walkChildren(node.children)
           [] node.tagName = "mrow" -> walkMrow(node.children)
           [] node.tagName = "mfenced" ->
                Build1(walkChildren(node.children),
                       LAMBDA b : MathDelimiter(b, attrOr(node.open, Str(LPAREN)),
                                                attrOr(node.close, Str(RPAREN))))
           [] node.tagName \in {"mi", "mn", "mo", "mtext", "ms"} -> walkLeaf(node)
           [] node.tagName = "mfrac" ->
                Build2(walkNode(ChildAt(node.children, 1)),
                       walkNode(ChildAt(node.children, 2)), MathFraction)
           [] node.tagName = "msup" ->
                Build2(walkNode(ChildAt(node.children, 1)),
                       walkNode(ChildAt(node.children, 2)), MathSuperScript)
           [] node.tagName = "msub" ->
                Build2(walkNode(ChildAt(node.children, 1)),
                       walkNode(ChildAt(node.children, 2)), MathSubScript)
           [] node.tagName = "msubsup" ->
                walkMsubsup(ChildAt(node.children, 1), ChildAt(node.children, 2),
                            ChildAt(node.children, 3))
           [] node.tagName = "msqrt" ->
                Build1(walkChildren(node.children), LAMBDA b : MathRadical(b, <<>>))
           [] node.tagName = "mroot" ->
                Build2(walkNode(ChildAt(node.children, 1)),
                       walkNode(ChildAt(node.children, 2)), MathRadical)
           [] node.tagName = "mover" ->
                walkMover(ChildAt(node.children, 1), ChildAt(node.children, 2))
           [] node.tagName = "munder" ->
                Build2(walkNode(ChildAt(node.children, 1)),
                       walkNode(ChildAt(node.children, 2)), MathLimitLower)
           [] node.tagName = "munderover" ->
                walkMunderover(ChildAt(node.children, 1), ChildAt(node.children, 2),
                               ChildAt(node.children, 3))
           [] node.tagName = "mspace" -> Ok(<<MathRun(Str(SPACE))>>)
           [] node.tagName = "mtable" -> Build1(walkRows(node.children), MathMatrix)
           [] OTHER -> walkChildren(node.children)

\* mutant: only the first child is walked
walkChildren_FirstOnly(children) ==
    IF children = <<>> THEN Ok(<<>>) ELSE walkNode(Head(children))

walkChildren(children) ==
    IF children = <<>> THEN Ok(<<>>)
    ELSE Concat(walkNode(Head(children)), walkChildren(Tail(children)))

\* ------------------------------------------------------------ entry points

RECURSIVE findFirst(_, _)
\* querySelector: the first element, in document order, with the tag
findFirst(nodes, tag) ==
    IF nodes = <<>> THEN Null
    ELSE IF Head(nodes).tagName = tag THEN Head(nodes)
    ELSE IF findFirst(Head(nodes).children, tag) # Null
         THEN findFirst(Head(nodes).children, tag)
    ELSE findFirst(Tail(nodes), tag)

RECURSIVE removeFirst(_, _)
\* annotation.remove(): the node list without its first element with the tag
removeFirst(nodes, tag) ==
    IF nodes = <<>> THEN <<>>
    ELSE IF Head(nodes).tagName = tag THEN Tail(nodes)
    ELSE IF findFirst(Head(nodes).children, tag) # Null
         THEN <<[Head(nodes) EXCEPT !.children = removeFirst(@, tag)]>> \o Tail(nodes)
    ELSE <<Head(nodes)>> \o removeFirst(Tail(nodes), tag)

\* root = semantics.firstElementChild || semantics, the annotation removed
semanticsRoot(semantics, kept) ==
    IF kept # <<>> THEN Head(kept) ELSE [semantics EXCEPT !.children = kept]

walkMath(mathNode, semantics) ==
    IF semantics = Null THEN walkNode(mathNode)
    ELSE walkNode(semanticsRoot(semantics,
                                removeFirst(semantics.children, "annotation")))

\* doc is the document element the parser returned
mathmlToDocx(doc) ==
    IF findFirst(<<doc>>, "parsererror") # Null THEN Ok(<<>>)
    ELSE IF findFirst(<<doc>>, "math") = Null THEN Ok(<<>>)
    ELSE walkMath(findFirst(<<doc>>, "math"),
                  findFirst(findFirst(<<doc>>, "math").children, "semantics"))

\* mutant: no catch, the exception leaves the call
catchAll_Rethrow(r, latex) == r

\* try { ... } catch (e) { return [new MathRun(latex)] }
catchAll(r, latex) == IF r.thrown THEN Ok(<<MathRun(latex)>>) ELSE r

\* rendered is what katex.renderToString did: it threw, or it returned markup
\* that the parser turns into rendered.doc
convertLatexToMath(latex, displayMode, rendered) ==
    catchAll(IF rendered.throws THEN Throw ELSE mathmlToDocx(rendered.doc), latex)

\* ------------------------------------------------------------ markdown
\* src/src/utils/MarkdownToDocx.ts

DOLLAR == 36
HASH == 35
STAR == 42
NEWLINE == 10
MAX_HEADING == 6

\* white space of String.prototype.trim and of \s: space, tab, no-break space
IsSpace(c) == c \in {32, 9, 160}

RECURSIVE trimStart(_)
trimStart(s) == IF s # <<>> /\ IsSpace(Head(s)) THEN trimStart(Tail(s)) ELSE s

RECURSIVE trimEnd(_)
trimEnd(s) ==
    IF s # <<>> /\ IsSpace(s[Len(s)]) THEN trimEnd(SubSeq(s, 1, Len(s) - 1)) ELSE s

trim(s) == trimEnd(trimStart(s))

startsWith(s, prefix) == Len(s) >= Len(prefix) /\ SubSeq(s, 1, Len(prefix)) = prefix

endsWith(s, suffix) ==
    Len(s) >= Len(suffix) /\ SubSeq(s, Len(s) - Len(suffix) + 1, Len(s)) = suffix

\* s.substring(from, to), both counted from 0
substring(s, from, to) == SubSeq(s, from + 1, to)

RECURSIVE join(_, _)
join(lines, sep) ==
    IF lines = <<>> THEN <<>>
    ELSE IF Len(lines) = 1 THEN lines[1]
    ELSE lines[1] \o sep \o join(Tail(lines), sep)

TextRun(text, style) ==
    [kind |-> "textRun", text |-> text, bold |-> style.bold, italics |-> style.italics]

Math(children) == [kind |-> "math", children |-> children]

\* heading is 0 for a paragraph that is no heading
Paragraph(children, heading, alignment) ==
    [kind |-> "paragraph", children |-> children, heading |-> heading,
     alignment |-> alignment]

NoStyle == [bold |-> FALSE, italics |-> FALSE]

\* what katex.renderToString does on a source, as the environment katex has it:
\* it throws, or it returns markup that the parser turns into a document; a
\* source the environment does not list renders to its own text
renderToString(katex, latex) ==
    IF katex.how = "throw" /\ latex = katex.failing
    THEN [throws |-> TRUE, doc |-> Null]
    ELSE IF katex.how = "parsererror" /\ latex = katex.failing
    THEN [throws |-> FALSE, doc |-> Elem("parsererror", <<>>)]
    ELSE IF latex \in DOMAIN katex.render
    THEN [throws |-> FALSE, doc |-> katex.render[latex]]
    ELSE [throws |-> FALSE,
          doc |-> Elem("math", <<Elem("mrow", <<Leaf("mtext", latex, FALSE, FALSE)>>)>>)]

\* the first index from `from` on (counted from 1) where text has c, or 0
indexFrom(text, c, from) ==
    IF \E q \in from .. Len(text) : text[q] = c
    THEN CHOOSE q \in from .. Len(text) :
             text[q] = c /\ \A r \in from .. q - 1 : text[r] # c
    ELSE 0

\* where a match of \$[^$]+\$ that starts at p ends, or 0
mathEnd(text, p) ==
    IF text[p] = DOLLAR /\ indexFrom(text, DOLLAR, p + 1) >= p + 2
    THEN indexFrom(text, DOLLAR, p + 1) ELSE 0

\* where a match of \*\*[^*]+\*\* that starts at p ends, or 0
boldEnd(text, p) ==
    IF /\ text[p] = STAR
       /\ p + 1 <= Len(text) /\ text[p + 1] = STAR
       /\ indexFrom(text, STAR, p + 2) >= p + 3
       /\ indexFrom(text, STAR, p + 2) + 1 <= Len(text)
       /\ text[indexFrom(text, STAR, p + 2) + 1] = STAR
    THEN indexFrom(text, STAR, p + 2) + 1 ELSE 0

\* where a match of \*[^*]+\* that starts at p ends, or 0
italicEnd(text, p) ==
    IF text[p] = STAR /\ indexFrom(text, STAR, p + 1) >= p + 2
    THEN indexFrom(text, STAR, p + 1) ELSE 0

\* the alternation, tried in its order at p
matchEnd(text, p) ==
    IF mathEnd(text, p) # 0 THEN mathEnd(text, p)
    ELSE IF boldEnd(text, p) # 0 THEN boldEnd(text, p)
    ELSE italicEnd(text, p)

\* regex.exec(text): the start of the leftmost match from `from` on, or 0
nextMatch(text, from) ==
    IF \E p \in from .. Len(text) : matchEnd(text, p) # 0
    THEN CHOOSE p \in from .. Len(text) :
             matchEnd(text, p) # 0 /\ \A r \in from .. p - 1 : matchEnd(text, r) = 0
    ELSE 0

RECURSIVE parseInline(_, _, _)
RECURSIVE inlineLoop(_, _, _, _, _)

\* "Text before match"
beforeMatch(text, from, p, style, parts) ==
    IF p > from THEN Append(parts, TextRun(SubSeq(text, from, p - 1), style))
    ELSE parts

\* parts.push(new Math({ children: mathNodes })); w is convertLatexToMath(latex)
inlineMath(w, parts) == IF w.thrown THEN Throw ELSE Ok(Append(parts, Math(w.val)))

\* parts.push(...parseInline(innerText, ...)); w is that call
inlineNested(w, parts) == IF w.thrown THEN Throw ELSE Ok(parts \o w.val)

\* the match text[p .. e] is inline math, bold or italic
inlineMatch(text, p, e, style, parts, katex) ==
    IF text[p] = DOLLAR
    THEN inlineMath(convertLatexToMath(SubSeq(text, p + 1, e - 1), FALSE,
                        renderToString(katex, SubSeq(text, p + 1, e - 1))), parts)
    ELSE IF startsWith(SubSeq(text, p, e), <<STAR, STAR>>)
    THEN inlineNested(parseInline(SubSeq(text, p + 2, e - 2),
                                  [style EXCEPT !.bold = TRUE], katex), parts)
    ELSE inlineNested(parseInline(SubSeq(text, p + 1, e - 1),
                                  [style EXCEPT !.italics = TRUE], katex), parts)

\* lastIndex = regex.lastIndex, and the loop goes on; r is the parts so far
inlineNext(r, text, from, style, katex) ==
    IF r.thrown THEN Throw ELSE inlineLoop(text, from, style, r.val, katex)

\* the while loop of parseInline and the text after the last match
inlineLoop(text, from, style, parts, katex) ==
    IF nextMatch(text, from) = 0
    THEN Ok(IF from <= Len(text)
            THEN Append(parts, TextRun(SubSeq(text, from, Len(text)), style))
            ELSE parts)
    ELSE inlineNext(inlineMatch(text, nextMatch(text, from),
                                matchEnd(text, nextMatch(text, from)), style,
                                beforeMatch(text, from, nextMatch(text, from),
                                            style, parts),
                                katex),
                    text, matchEnd(text, nextMatch(text, from)) + 1, style, katex)

\* return parts.length > 0 ? parts : [new TextRun({ text })]
inlineResult(r, text, style) ==
    IF r.thrown THEN Throw
    ELSE Ok(IF Len(r.val) > 0 THEN r.val ELSE <<TextRun(text, style)>>)

parseInline(text, style, katex) ==
    inlineResult(inlineLoop(text, 1, style, <<>>, katex), text, style)

\* one block made of walked content; w is the call that gave the content
mathParagraph(w) ==
    IF w.thrown THEN Throw ELSE Ok(<<Paragraph(<<Math(w.val)>>, 0, "center")>>)

textParagraph(w, heading) ==
    IF w.thrown THEN Throw ELSE Ok(<<Paragraph(w.val, heading, "none")>>)

createMathBlock(latex, katex) ==
    mathParagraph(convertLatexToMath(latex, TRUE, renderToString(katex, latex)))

createParagraph(lines, katex) ==
    textParagraph(parseInline(join(lines, <<SPACE>>), NoStyle, katex), 0)

\* the leading run of # of a heading line
RECURSIVE hashes(_)
hashes(line) == IF line # <<>> /\ Head(line) = HASH THEN 1 + hashes(Tail(line)) ELSE 0

\* line.match(/^(#+)\s*(.*)/) on a line that starts with #
createHeading(line, katex) ==
    textParagraph(parseInline(trimStart(SubSeq(line, hashes(line) + 1, Len(line))),
                              NoStyle, katex),
                  IF hashes(line) <= MAX_HEADING THEN hashes(line) ELSE MAX_HEADING)

\* the locals of parseMarkdown; thrown: an exception has left the call
MdState(children, currentParagraphLines, inBlockMath, blockMathContent, thrown) ==
    [children |-> children, currentParagraphLines |-> currentParagraphLines,
     inBlockMath |-> inBlockMath, blockMathContent |-> blockMathContent,
     thrown |-> thrown]

MdStart == MdState(<<>>, <<>>, FALSE, <<>>, FALSE)

\* children.push(block); w is the call that made the block
mdPush(md, w) ==
    IF md.thrown \/ w.thrown THEN [md EXCEPT !.thrown = TRUE]
    ELSE [md EXCEPT !.children = @ \o w.val]

\* the pending paragraph lines become a paragraph
flushParagraph(md, katex) ==
    IF Len(md.currentParagraphLines) > 0
    THEN [mdPush(md, createParagraph(md.currentParagraphLines, katex))
             EXCEPT !.currentParagraphLines = <<>>]
    ELSE md

\* mutant: the opening $$ leaves the pending paragraph lines where they are
mdFence_NoFlush(md, katex) ==
    IF md.inBlockMath
    THEN [(IF Len(md.blockMathContent) > 0
           THEN mdPush(md, createMathBlock(join(md.blockMathContent, <<NEWLINE>>),
                                           katex))
           ELSE md)
             EXCEPT !.blockMathContent = <<>>, !.inBlockMath = FALSE]
    ELSE [md EXCEPT !.inBlockMath = TRUE]

\* a line that is $$ alone
mdFence(md, katex) ==
    IF md.inBlockMath
    THEN [(IF Len(md.blockMathContent) > 0
           THEN mdPush(md, createMathBlock(join(md.blockMathContent, <<NEWLINE>>),
                                           katex))
           ELSE md)
             EXCEPT !.blockMathContent = <<>>, !.inBlockMath = FALSE]
    ELSE [flushParagraph(md, katex) EXCEPT !.inBlockMath = TRUE]

\* one iteration of the loop over the lines
mdStep(md, line, katex) ==
    IF trim(line) = <<DOLLAR, DOLLAR>> THEN mdFence(md, katex)
    ELSE IF /\ ~md.inBlockMath
            /\ startsWith(trim(line), <<DOLLAR, DOLLAR>>)
            /\ endsWith(trim(line), <<DOLLAR, DOLLAR>>)
            /\ Len(trim(line)) > 4
    THEN mdPush(flushParagraph(md, katex),
                createMathBlock(substring(trim(line), 2, Len(trim(line)) - 2), katex))
    ELSE IF md.inBlockMath
    THEN [md EXCEPT !.blockMathContent = Append(@, line)]
    ELSE IF startsWith(line, <<HASH>>)
    THEN mdPush(flushParagraph(md, katex), createHeading(line, katex))
    ELSE IF trim(line) = <<>> THEN flushParagraph(md, katex)
    ELSE [md EXCEPT !.currentParagraphLines = Append(@, line)]

\* mutant: math lines still held after the loop become a math block
mdFinish_FlushMath(md, katex) ==
    IF md.inBlockMath /\ Len(md.blockMathContent) > 0
    THEN mdPush(md, createMathBlock(join(md.blockMathContent, <<NEWLINE>>), katex))
    ELSE flushParagraph(md, katex)

\* after the loop: the lines still pending become the last paragraph
mdFinish(md, katex) == flushParagraph(md, katex)

RECURSIVE mdLoop(_, _, _, _)
mdLoop(md, lines, k, katex) ==
    IF md.thrown THEN md
    ELSE IF k > Len(lines) THEN mdFinish(md, katex)
    ELSE mdLoop(mdStep(md, lines[k], katex), lines, k + 1, katex)

mdOutcome(md) == IF md.thrown THEN Throw ELSE Ok(md.children)

\* lines is markdown.split('\n')
parseMarkdown(lines, katex) == mdOutcome(mdLoop(MdStart, lines, 1, katex))

\* ------------------------------------------------------------ inputs

MaxRowLen == 3
MaxTextLen == 2

\* sample texts: a, b, P, 1, the integral sign, the summation sign
TxtA == <<97>>
TxtB == <<98>>
TxtP == <<80>>
Txt1 == <<49>>
TxtInt == <<8747>>
TxtSum == <<8721>>

Mi(text) == Leaf("mi", text, FALSE, FALSE)
Mn(text) == Leaf("mn", text, FALSE, FALSE)
Mo(text) == Leaf("mo", text, FALSE, FALSE)

NInt == Elem("msubsup", <<Mo(TxtInt), Mn(Txt1), Mi(TxtA)>>)
NSum == Elem("munderover", <<Mo(TxtSum), Mi(TxtA), Mn(Txt1)>>)
SubRow == Elem("mrow", <<Mi(TxtA), Mi(TxtB)>>)

\* the siblings a row is made of
Tokens ==
    {Mi(TxtA), Mo(Str(LPAREN)), Mo(Str(RPAREN)), Mo(Str(LBRACK)), Mo(Str(RBRACK)),
     Mo(Str(LBRACE)), Mo(Str(VBAR)), Mo(Str(DOT)), NInt, NSum, SubRow}

SeqsUpTo(S, n) == UNION {[1 .. k -> S] : k \in 0 .. n}

\* P ( A | B )
RowPAB == <<Mi(TxtP), Mo(Str(LPAREN)), Mi(TxtA), Mo(Str(VBAR)), Mi(TxtB),
            Mo(Str(RPAREN))>>
\* [ a ( b ) P ]
RowNested == <<Mo(Str(LBRACK)), Mi(TxtA), Mo(Str(LPAREN)), Mi(TxtB), Mo(Str(RPAREN)),
               Mi(TxtP), Mo(Str(RBRACK))>>
\* what \begin{cases} a \\ b \end{cases} renders to: { followed by a table
RowCases == <<Mo(Str(LBRACE)),
              Elem("mtable", <<Elem("mtr", <<Elem("mtd", <<Mi(TxtA)>>)>>),
                               Elem("mtr", <<Elem("mtd", <<Mi(TxtB)>>)>>)>>)>>

\* the ambiguous fences: the bar, the double bar, the dot, and the divides sign
\* as the renderer marks it (fence="true")
AmbiguousFences ==
    {Mo(Str(VBAR)), Mo(Str(DVBAR)), Mo(Str(DOT)), Leaf("mo", Str(DIVIDES), TRUE, FALSE)}
\* c, c c, ( c ), c a c, and ( c a c )
AmbiguousRows ==
    {<<c, c>> : c \in AmbiguousFences}
    \cup {<<c>> : c \in AmbiguousFences}
    \cup {<<Mo(Str(LPAREN)), c, Mo(Str(RPAREN))>> : c \in AmbiguousFences}
    \cup {<<c, Mi(TxtA), c>> : c \in AmbiguousFences}
    \cup {<<Mo(Str(LPAREN)), c, Mi(TxtA), c, Mo(Str(RPAREN))>> : c \in AmbiguousFences}

\* an integral or summation sign that is a bare operator, or the base of a node
\* with one script or one limit only
Lookalikes ==
    {Mo(TxtInt), Mo(TxtSum)}
    \cup {Elem(t, <<b, Mn(Txt1)>>) :
             t \in {"msub", "msup", "munder", "mover"}, b \in {Mo(TxtInt), Mo(TxtSum)}}
\* such a node followed by a sibling, or by two
LookalikeRows ==
    {<<n, Mi(TxtA)>> : n \in Lookalikes} \cup {<<n, Mi(TxtA), Mi(TxtB)>> : n \in Lookalikes}

Rows ==
    SeqsUpTo(Tokens, MaxRowLen) \cup {RowPAB, RowNested, RowCases} \cup AmbiguousRows
    \cup LookalikeRows

\* over-accent nodes: the over child's tag, text and accent marker vary, and so
\* does the marker on the mover element itself
OverChars == {94, 8254, 767, 768, 879, 880, 97, 43}
OverNodes ==
    {Leaf(t, Str(c), FALSE, m) : t \in {"mo", "mi"}, c \in OverChars, m \in BOOLEAN}
    \cup {Elem("mrow", <<Mo(<<94>>)>>)}
MoverBases == {Mi(TxtA), Elem("mrow", <<Mo(Str(LPAREN)), Mi(TxtA), Mo(Str(RPAREN))>>)}
Movers ==
    {[Elem("mover", <<b, o>>) EXCEPT !.accent = m] :
        b \in MoverBases, o \in OverNodes, m \in BOOLEAN}

\* the tags with positional slots, given from no child up to all their slots;
\* the base is a letter, an integral sign or a summation sign
SlotTags == {"mfrac", "msup", "msub", "msubsup", "mroot", "mover", "munder",
             "munderover"}
Slots(tag) == IF tag \in {"msubsup", "munderover"} THEN 3 ELSE 2
SlotBases == {Mi(TxtA), Mo(TxtInt), Mo(TxtSum)}
SlotNodes ==
    {n \in {Elem(t, SubSeq(<<b, s, Mi(TxtB)>>, 1, k)) :
               t \in SlotTags, b \in SlotBases, s \in {Mn(Txt1), SubRow}, k \in 0 .. 3} :
        Len(n.children) <= Slots(n.tagName)}

\* tables: a row child is a cell or (malformed) an identifier, a table child is
\* a row or (malformed) an identifier; one table has a bracketed cell
MaxTableRows == 2
MaxTableCells == 2
CellKinds == {Elem("mtd", <<Mi(TxtA)>>), Elem("mtd", <<Mi(TxtB), Mn(Txt1)>>), Mi(TxtP)}
TableRowKinds ==
    {Elem("mtr", cells) : cells \in SeqsUpTo(CellKinds, MaxTableCells)} \cup {Mi(TxtA)}
Tables ==
    {Elem("mtable", rows) : rows \in SeqsUpTo(TableRowKinds, MaxTableRows)}
    \cup {Elem("mtable", <<Elem("mtr", <<Elem("mtd",
              <<Elem("mrow", <<Mo(Str(LPAREN)), Mi(TxtA), Mo(Str(RPAREN))>>)>>)>>)>>)}

\* leaves, and containers that are flattened: math, mstyle, an unknown tag, with
\* an identifier, an empty row, or nothing inside
Leaves ==
    {Leaf(t, x, FALSE, FALSE) :
        t \in {"mi", "mn", "mo", "mtext", "ms"},
        x \in {<<>>, TxtA, <<97, SPACE, 98>>, <<SPACE, 97>>, TxtInt, Str(LPAREN)}}
Containers ==
    {Elem(t, c) : t \in {"math", "mstyle", "mrow", "mpadded", "msqrt"},
                  c \in {<<>>, <<Mi(TxtA)>>, <<Elem("mrow", <<>>)>>,
                         <<Mi(TxtA), Elem("mspace", <<>>), Mn(Txt1)>>,
                         <<NInt, Mi(TxtA)>>, <<SubRow, Mn(Txt1)>>}}

\* native fenced groups: each attribute absent, empty, or a bracket
FencedAttrs == {<<>>, <<<<>>>>, <<Str(LBRACK)>>, <<Str(RBRACK)>>}
Fenceds ==
    {[Elem("mfenced", c) EXCEPT !.open = o, !.close = cl] :
        c \in {<<>>, <<Mi(TxtA)>>, <<Mi(TxtA), Mn(Txt1)>>},
        o \in FencedAttrs, cl \in FencedAttrs}

Nodes == Movers \cup SlotNodes \cup Tables \cup Leaves \cup Containers \cup Fenceds

\* the code units the classifiers are tried on: both families, letters and
\* digits, and the code units next to the families
ClassifierChars ==
    IntegralChars \cup SumChars
    \cup {97, 80, 49, 8746, 8756, 8718, 8722, 8895, 8900, 10755, 10757}
Texts == SeqsUpTo(ClassifierChars, MaxTextLen)

Annotation == Leaf("annotation", TxtA, FALSE, FALSE)
Exprs == {Elem("mrow", r) : r \in SeqsUpTo(Tokens, 2)} \cup {Elem("mrow", RowPAB), NInt}
Docs ==
    {Elem("parsererror", <<>>), Elem("span", <<>>),
     Elem("math", <<Elem("semantics", <<Annotation>>)>>)}
    \cup {Elem("span", <<Elem("parsererror", <<>>), Elem("math", <<e>>)>>) : e \in Exprs}
    \cup {Elem("span", <<Elem("math", <<Elem("semantics", <<e, Annotation>>)>>)>>) : e \in Exprs}
    \cup {Elem("math", <<e>>) : e \in Exprs}

LatexSources == {TxtA, <<LPAREN, 97, RPAREN>>}
Rendered == {[throws |-> TRUE, doc |-> Null]} \cup {[throws |-> FALSE, doc |-> d] : d \in Docs}

\* markdown lines: a heading, a paragraph with inline math, the $$ line, a
\* plain line, the empty line, a one-line block, bold and italic with math
MaxLines == 3
TxtA1 == <<97, 94, 49>>
TxtParenA == <<LPAREN, 97, RPAREN>>
MdLines ==
    {<<HASH, SPACE, 98>>,
     <<97, SPACE, DOLLAR>> \o TxtA1 \o <<DOLLAR>>,
     <<DOLLAR, DOLLAR>>,
     TxtA1,
     <<>>,
     <<DOLLAR, DOLLAR>> \o TxtParenA \o <<DOLLAR, DOLLAR>>,
     <<STAR, STAR, 98, STAR, STAR, SPACE, STAR, DOLLAR, 98, DOLLAR, STAR>>}
Markdowns == SeqsUpTo(MdLines, MaxLines)

\* what the renderer gives for a^1 and for (a)
Markup ==
    (TxtA1 :> Elem("math", <<Elem("semantics",
                 <<Elem("mrow", <<Elem("msup", <<Mi(TxtA), Mn(Txt1)>>)>>),
                   Annotation>>)>>))
    @@ (TxtParenA :> Elem("math", <<Elem("semantics",
                 <<Elem("mrow", <<Mo(Str(LPAREN)), Mi(TxtA), Mo(Str(RPAREN))>>),
                   Annotation>>)>>))

\* the renderer works on every source, or fails on the source a^1
Katexes ==
    {[how |-> h, failing |-> TxtA1, render |-> Markup] :
        h \in {"none", "throw", "parsererror"}}

\* ------------------------------------------------------------ state machine

VARIABLES
    pc,     \* "idle", "row" (inside the loop of a row), "md" (inside the loop
            \* of parseMarkdown), "done" (a call has ended)
    op,     \* the function called
    arg,    \* its argument
    i,      \* the loop's index, from 1
    st,     \* the locals of the loop: the row's stack and result, or the
            \* buffers, flag and children of parseMarkdown
    ret     \* the outcome of the call

vars == <<pc, op, arg, i, st, ret>>

NoArg == [none |-> TRUE]

Init ==
    /\ pc = "idle"
    /\ op = "none"
    /\ arg = NoArg
    /\ i = 0
    /\ st = RowStart
    /\ ret = Ok(<<>>)

\* walkNode on a row, entered: result = [], stack = []
CallWalkRow ==
    /\ pc = "idle"
    /\ \E row \in Rows : arg' = Elem("mrow", row)
    /\ pc' = "row"
    /\ op' = "walkRow"
    /\ i' = 1
    /\ st' = RowStart
    /\ ret' = Ok(<<>>)

\* one iteration of the row's loop
RowStep ==
    /\ pc = "row"
    /\ i <= Len(arg.children)
    /\ st' = rowStep(st, arg.children[i])
    /\ IF st'.thrown
       THEN pc' = "done" /\ ret' = Throw /\ i' = i
       ELSE pc' = "row" /\ ret' = ret /\ i' = i + 1
    /\ UNCHANGED <<op, arg>>

\* the end of the row: the frames left are closed, the result is returned
RowFinish ==
    /\ pc = "row"
    /\ i > Len(arg.children)
    /\ st' = rowFinish(st)
    /\ pc' = "done"
    /\ ret' = IF st'.thrown THEN Throw ELSE Ok(st'.result)
    /\ UNCHANGED <<op, arg, i>>

CallWalkNode ==
    /\ pc = "idle"
    /\ \E node \in Nodes : arg' = node /\ ret' = walkNode(node)
    /\ pc' = "done"
    /\ op' = "walkNode"
    /\ UNCHANGED <<i, st>>

CallClassify ==
    /\ pc = "idle"
    /\ \E text \in Texts :
          /\ arg' = text
          /\ ret' = [isIntegral |-> isIntegral(text), isSum |-> isSum(text)]
    /\ pc' = "done"
    /\ op' = "classify"
    /\ UNCHANGED <<i, st>>

CallMathmlToDocx ==
    /\ pc = "idle"
    /\ \E doc \in Docs : arg' = doc /\ ret' = mathmlToDocx(doc)
    /\ pc' = "done"
    /\ op' = "mathmlToDocx"
    /\ UNCHANGED <<i, st>>

CallConvertLatexToMath ==
    /\ pc = "idle"
    /\ \E latex \in LatexSources, displayMode \in BOOLEAN, rendered \in Rendered :
          /\ arg' = [latex |-> latex, displayMode |-> displayMode, rendered |-> rendered]
          /\ ret' = convertLatexToMath(latex, displayMode, rendered)
    /\ pc' = "done"
    /\ op' = "convertLatexToMath"
    /\ UNCHANGED <<i, st>>

\* parseMarkdown, entered: the lines are split, the buffers are empty
CallParseMarkdown ==
    /\ pc = "idle"
    /\ \E lines \in Markdowns, katex \in Katexes :
          arg' = [lines |-> lines, katex |-> katex]
    /\ pc' = "md"
    /\ op' = "parseMarkdown"
    /\ i' = 1
    /\ st' = MdStart
    /\ ret' = Ok(<<>>)

\* one iteration of the loop over the lines
MdStep ==
    /\ pc = "md"
    /\ i <= Len(arg.lines)
    /\ st' = mdStep(st, arg.lines[i], arg.katex)
    /\ IF st'.thrown
       THEN pc' = "done" /\ ret' = Throw /\ i' = i
       ELSE pc' = "md" /\ ret' = ret /\ i' = i + 1
    /\ UNCHANGED <<op, arg>>

\* the end of the lines: the pending paragraph is flushed, children is returned
MdFinish ==
    /\ pc = "md"
    /\ i > Len(arg.lines)
    /\ st' = mdFinish(st, arg.katex)
    /\ pc' = "done"
    /\ ret' = mdOutcome(st')
    /\ UNCHANGED <<op, arg, i>>

\* the caller takes the outcome; the next call starts afresh
Return ==
    /\ pc = "done"
    /\ pc' = "idle"
    /\ op' = "none"
    /\ arg' = NoArg
    /\ i' = 0
    /\ st' = RowStart
    /\ ret' = Ok(<<>>)

Next ==
    \/ CallWalkRow
    \/ RowStep
    \/ RowFinish
    \/ CallWalkNode
    \/ CallClassify
    \/ CallMathmlToDocx
    \/ CallConvertLatexToMath
    \/ CallParseMarkdown
    \/ MdStep
    \/ MdFinish
    \/ Return

Spec == Init /\ [][Next]_vars

\* the row loop taken step by step ends as walkNode does on the whole row
StepwiseAgrees == (pc = "done" /\ op = "walkRow") => ret = walkNode(arg)

\* the loop over the lines taken step by step ends as parseMarkdown does
MdStepwiseAgrees ==
    (pc = "done" /\ op = "parseMarkdown") => ret = parseMarkdown(arg.lines, arg.katex)

\* ------------------------------------------------------------ two calls
\* Two conversions in flight.  Every variable is a function of the call: the
\* call's position, its markup, the index of its root row's loop, the result and
\* stack of that row, and its outcome.

Calls == {1, 2}

MaxParLen == 2
ParTokens == {Mi(TxtA), NInt, Mo(Str(LPAREN))}
ParDocs == {Elem("math", <<Elem("mrow", row)>>) : row \in SeqsUpTo(ParTokens, MaxParLen)}

\* the root row walkNode is called on
ParRoot(doc) == findFirst(<<doc>>, "math").children[1]

\* mutant: result and stack are kept at module level, one for all calls
localsOf_Shared(locals, c) == locals[1]

\* const result = [], const stack = []: they belong to the call that declared them
localsOf(locals, c) == locals[c]

ParInit ==
    /\ pc = [c \in Calls |-> "idle"]
    /\ op = [c \in Calls |-> "none"]
    /\ arg = [c \in Calls |-> NoArg]
    /\ i = [c \in Calls |-> 0]
    /\ st = [c \in Calls |-> RowStart]
    /\ ret = [c \in Calls |-> Ok(<<>>)]

\* mathmlToDocx parses its markup and enters walkNode on the root row
ParCall(c) ==
    /\ pc[c] = "idle"
    /\ \E doc \in ParDocs : arg' = [arg EXCEPT ![c] = doc]
    /\ pc' = [pc EXCEPT ![c] = "row"]
    /\ op' = [op EXCEPT ![c] = "mathmlToDocx"]
    /\ i' = [i EXCEPT ![c] = 1]
    /\ st' = [st EXCEPT ![c] = RowStart]
    /\ ret' = [ret EXCEPT ![c] = Ok(<<>>)]

\* one iteration of the root row's loop in call c
ParStep(c) ==
    /\ pc[c] = "row"
    /\ i[c] <= Len(ParRoot(arg[c]).children)
    /\ st' = [st EXCEPT ![c] = rowStep(localsOf(st, c), ParRoot(arg[c]).children[i[c]])]
    /\ IF st'[c].thrown
       THEN /\ pc' = [pc EXCEPT ![c] = "done"]
            /\ ret' = [ret EXCEPT ![c] = Throw]
            /\ i' = i
       ELSE /\ pc' = pc
            /\ ret' = ret
            /\ i' = [i EXCEPT ![c] = i[c] + 1]
    /\ UNCHANGED <<op, arg>>

\* the end of the root row in call c, and the return of mathmlToDocx
ParFinish(c) ==
    /\ pc[c] = "row"
    /\ i[c] > Len(ParRoot(arg[c]).children)
    /\ st' = [st EXCEPT ![c] = rowFinish(localsOf(st, c))]
    /\ pc' = [pc EXCEPT ![c] = "done"]
    /\ ret' = [ret EXCEPT ![c] = rowOutcome(st'[c])]
    /\ UNCHANGED <<op, arg, i>>

\* the caller of call c takes the outcome
ParReturn(c) ==
    /\ pc[c] = "done"
    /\ pc' = [pc EXCEPT ![c] = "idle"]
    /\ op' = [op EXCEPT ![c] = "none"]
    /\ arg' = [arg EXCEPT ![c] = NoArg]
    /\ i' = [i EXCEPT ![c] = 0]
    /\ st' = [st EXCEPT ![c] = RowStart]
    /\ ret' = [ret EXCEPT ![c] = Ok(<<>>)]

ParNext ==
    \E c \in Calls :
        \/ ParCall(c)
        \/ ParStep(c)
        \/ ParFinish(c)
        \/ ParReturn(c)

ParSpec == ParInit /\ [][ParNext]_vars

\* ------------------------------------------------------------ claims

\* the row being resolved and the sibling the next iteration takes
RowChildren == arg.children
InLoop == pc = "row" /\ i <= Len(RowChildren)
RowDone == pc = "done" /\ op = "walkRow"

\* a Delimiter made of a frame as it stands: its accumulated nodes are the body
FrameDelimiter(frame, endChr) ==
    MathDelimiter(frame.children, normalizeFence(frame.openChar), endChr)

IsBracketOpen(child) ==
    isFence(child) /\ textContent(child) \in {Str(LPAREN), Str(LBRACK), Str(LBRACE)}
IsBracketClose(child) ==
    isFence(child) /\ textContent(child) \in {Str(RPAREN), Str(RBRACK), Str(RBRACE)}

PlainOutput(child) ==
    /\ ~isFence(child)
    /\ ~walkNode(child).thrown
    /\ \A k \in 1 .. Len(walkNode(child).val) : ~IsNary(walkNode(child).val[k])

RECURSIVE WellNestedForest(_, _, _)
\* The forest a well-nested row over (), [], {} stands for: frames is the stack
\* of open brackets with the forest read so far in each, the bottom frame being
\* the top level.  ok is FALSE when the row is not well nested.
WellNestedForest(children, k, frames) ==
    IF k > Len(children)
    THEN [ok |-> Len(frames) = 1, val |-> frames[1].children]
    ELSE LET child == children[k]
             top == frames[Len(frames)]
             below == SubSeq(frames, 1, Len(frames) - 1)
         IN  IF IsBracketOpen(child)
             THEN WellNestedForest(children, k + 1,
                      Append(frames, Frame(child, textContent(child))))
             ELSE IF IsBracketClose(child)
             THEN IF Len(frames) > 1 /\ isPair(top.openChar, textContent(child))
                  THEN WellNestedForest(children, k + 1,
                          [below EXCEPT ![Len(below)].children =
                              Append(@, MathDelimiter(top.children, top.openChar,
                                                      textContent(child)))])
                  ELSE [ok |-> FALSE, val |-> <<>>]
             ELSE IF PlainOutput(child)
             THEN WellNestedForest(children, k + 1,
                      [frames EXCEPT ![Len(frames)].children =
                          @ \o walkNode(child).val])
             ELSE [ok |-> FALSE, val |-> <<>>]

WellNested(children) == WellNestedForest(children, 1, <<Frame(Null, <<>>)>>)

\* C1: a row whose fence tokens are a well-nested sequence over (), [], {} is
\* walked without an exception, and the result is the forest the brackets
\* stand for: one Delimiter per bracket pair, its markers the literal bracket
\* characters, its body the walked siblings it encloses, inner pairs nested.
C1_WellNestedRowGivesDelimiters ==
    (RowDone /\ WellNested(RowChildren).ok)
        => ret = Ok(WellNested(RowChildren).val)

\* C3: a closer-only fence that pairs with no frame of the stack is appended
\* as a text run to the top frame (to the result when the stack is empty); no
\* frame is popped and no Delimiter is made.
C3_UnmatchedCloserIsText ==
    [][(/\ InLoop
        /\ isFence(RowChildren[i])
        /\ isCloserChar(textContent(RowChildren[i]))
        /\ ~foundPair(st.stack, textContent(RowChildren[i])))
       => st' \in {pushToTarget(st.stack, st.result,
                                MathRun(textContent(RowChildren[i]))),
                   appendToTarget(st.stack, st.result,
                                  <<MathRun(textContent(RowChildren[i]))>>)}]_vars

RECURSIVE CloseDownTo(_, _, _)
\* every frame above the one that pairs with the closer becomes a Delimiter
\* with an empty close marker in the frame below it; the pairing frame is
\* closed with the closer
CloseDownTo(stack, result, char) ==
    IF isPair(Top(stack).openChar, char)
    THEN appendToTarget(Pop(stack), result,
                        <<FrameDelimiter(Top(stack), normalizeFence(char))>>)
    ELSE LET nxt == pushToTarget(Pop(stack), result, FrameDelimiter(Top(stack), <<>>))
         IN  CloseDownTo(nxt.stack, nxt.result, char)

ForestPAB ==
    <<MathRun(TxtP),
      MathDelimiter(<<MathRun(TxtA), MathDelimiter(<<MathRun(TxtB)>>, Str(VBAR), <<>>)>>,
                    Str(LPAREN), Str(RPAREN))>>

\* C4: a closer that pairs with a frame below the top closes every frame above
\* that one with an empty close marker, innermost first, and then the pairing
\* frame with the closer itself; P ( A | B ) gives P and one ( ) Delimiter
\* holding A and the |-opened group around B.
C4_MismatchedCloseAutoCloses ==
    [][/\ (/\ InLoop
           /\ isFence(RowChildren[i])
           /\ isCloserChar(textContent(RowChildren[i]))
           /\ Len(st.stack) > 0
           /\ ~isPair(Top(st.stack).openChar, textContent(RowChildren[i]))
           /\ foundPair(st.stack, textContent(RowChildren[i])))
          => st' = CloseDownTo(st.stack, st.result, textContent(RowChildren[i]))
       /\ (pc = "row" /\ pc' = "done" /\ RowChildren = RowPAB)
          => ret' = Ok(ForestPAB)]_vars

RECURSIVE CloseAllOpen(_, _)
\* every frame left becomes a Delimiter with an empty close marker in the
\* frame below it, innermost first
CloseAllOpen(stack, result) ==
    IF Len(stack) = 0 THEN result
    ELSE LET nxt == appendToTarget(Pop(stack), result, <<FrameDelimiter(Top(stack), <<>>)>>)
         IN  CloseAllOpen(nxt.stack, nxt.result)

ForestCases ==
    <<MathDelimiter(
        <<MathMatrix(<<MathMatrixRow(<<MathElement(<<MathRun(TxtA)>>)>>),
                       MathMatrixRow(<<MathElement(<<MathRun(TxtB)>>)>>)>>)>>,
        Str(LBRACE), <<>>)>>

\* C5: at the end of a row every frame still open is closed, innermost first,
\* with its normalized open marker and an empty close marker; an unclosed {
\* followed by content gives one Delimiter { with an empty close marker around
\* that content.
C5_EndOfRowClosesOpenFrames ==
    [][/\ (pc = "row" /\ i > Len(RowChildren))
          => ret' = Ok(CloseAllOpen(st.stack, st.result))
       /\ (pc = "row" /\ pc' = "done" /\ RowChildren = RowCases)
          => ret' = Ok(ForestCases)]_vars

\* C10: mathmlToDocx never throws: a parse error or a missing math element
\* gives the empty sequence, and every parsed tree gives a sequence of nodes.
C10_MathmlToDocxNeverThrows ==
    (pc = "done" /\ op = "mathmlToDocx")
        => /\ ~ret.thrown
           /\ (findFirst(<<arg>>, "parsererror") # Null
               \/ findFirst(<<arg>>, "math") = Null) => ret = Ok(<<>>)

\* a sub+superscript or under+over node with three children whose base text is
\* integral- or sum-family
IsNarySource(node) ==
    /\ node.tagName \in {"msubsup", "munderover"}
    /\ Len(node.children) = 3
    /\ (isIntegral(textContent(node.children[1])) \/ isSum(textContent(node.children[1])))

IsIntegralSource(node) ==
    IsNarySource(node) /\ isIntegral(textContent(node.children[1]))

\* a row N x1 .. xk: no sibling is a fence token and every sibling's walk returns
AbsorbingRow(children) ==
    /\ Len(children) >= 2
    /\ IsNarySource(children[1])
    /\ \A k \in 1 .. Len(children) :
          ~isFence(children[k]) /\ ~walkNode(children[k]).thrown

RECURSIVE WalkedOutputs(_, _)
\* the walked outputs of children[k], children[k + 1], ... in input order
WalkedOutputs(children, k) ==
    IF k > Len(children) THEN <<>>
    ELSE walkNode(children[k]).val \o WalkedOutputs(children, k + 1)

HasNary(nodes) == \E k \in 1 .. Len(nodes) : IsNary(nodes[k])

Placeholder == MathRun(Str(ZWSP))

RECURSIVE BodyReading(_)
\* the nodes of a forest read depth first through N-ary bodies: an N-ary
\* operator, with its body set back to the placeholder, then what its body holds
BodyReading(nodes) ==
    IF nodes = <<>> THEN <<>>
    ELSE (IF IsNary(Head(nodes))
          THEN <<[Head(nodes) EXCEPT !.baseElement = <<Placeholder>>]>>
               \o BodyReading(Tail(Head(nodes).baseElement))
          ELSE <<Head(nodes)>>)
         \o BodyReading(Tail(nodes))

\* C2: a row N x1 .. xk without fence tokens, N an N-ary source, gives one
\* top-level node, N's operator, and the walked outputs of x1 .. xk are all in
\* its body, in input order: directly after the placeholder when none of them
\* is itself an N-ary operator, and read through the absorbing operators
\* otherwise.
C2_NaryAbsorbsFollowingSiblings ==
    (RowDone /\ AbsorbingRow(RowChildren))
        => /\ ~ret.thrown
           /\ Len(ret.val) = 1
           /\ IsNary(ret.val[1])
           /\ [ret.val[1] EXCEPT !.baseElement = <<Placeholder>>]
                 = walkNode(RowChildren[1]).val[1]
           /\ BodyReading(Tail(ret.val[1].baseElement))
                 = BodyReading(WalkedOutputs(RowChildren, 2))
           /\ ~HasNary(WalkedOutputs(RowChildren, 2))
                 => ret.val[1].baseElement
                      = <<Placeholder>> \o WalkedOutputs(RowChildren, 2)

C2_Witness ==
    /\ RowDone
    /\ AbsorbingRow(RowChildren)
    /\ Len(RowChildren) = 3
    /\ ~HasNary(WalkedOutputs(RowChildren, 2))
    /\ Len(ret.val) = 1
    /\ Len(ret.val[1].baseElement) >= 3

\* C6: in a row of two consecutive integral operators followed by an integrand
\* the first operator's body holds, after its placeholder, the second operator
\* alone, and the second operator's body holds the integrand.
C6_NestedIntegrals ==
    (/\ RowDone
     /\ AbsorbingRow(RowChildren)
     /\ Len(RowChildren) >= 3
     /\ IsIntegralSource(RowChildren[1])
     /\ IsIntegralSource(RowChildren[2])
     /\ ~HasNary(WalkedOutputs(RowChildren, 3)))
        => /\ ~ret.thrown
           /\ Len(ret.val) = 1
           /\ IsNary(ret.val[1])
           /\ Len(ret.val[1].baseElement) = 2
           /\ ret.val[1].baseElement[1] = Placeholder
           /\ IsNary(ret.val[1].baseElement[2])
           /\ ret.val[1].baseElement[2].baseElement
                 = <<Placeholder>> \o WalkedOutputs(RowChildren, 3)

C6_Witness ==
    /\ RowDone
    /\ Len(RowChildren) = 3
    /\ IsIntegralSource(RowChildren[1])
    /\ IsIntegralSource(RowChildren[2])
    /\ RowChildren[3] = Mi(TxtA)
    /\ ~ret.thrown
    /\ ret.val[1].baseElement[2].baseElement = <<Placeholder, MathRun(TxtA)>>

MoverDone == pc = "done" /\ op = "walkNode" /\ arg.tagName = "mover"
OverChild == arg.children[2]
BaseChild == arg.children[1]

\* the fixed accent set: arrows, hats, bars, tildes, dots, and the combining
\* marks U+0300 .. U+036F
InAccentSet(text) ==
    /\ Len(text) = 1
    /\ (text[1] \in {8594, 8407, 94, 710, 175, 713, 126, 732, 729, 168}
        \/ text[1] \in 768 .. 879)

\* the accent marker, on the over-accent element or on its over child
Marked == arg.accent \/ OverChild.accent

ClassifyDone == pc = "done" /\ op = "classify"

IsLetterOrDigit(c) == c \in 48 .. 57 \/ c \in 65 .. 90 \/ c \in 97 .. 122

\* C8: isIntegral is true of every code point U+222B .. U+2233, isSum of each
\* of U+2211, U+220F, U+2210, U+22C0 .. U+22C3, U+2A00, U+2A01, U+2A02, U+2A04,
\* U+2A06; both are false of a text of letters and digits; no single code
\* point is in both families.
C8_ClassifierFamilies ==
    ClassifyDone
        => /\ (Len(arg) = 1 /\ arg[1] \in 8747 .. 8755) => ret.isIntegral
           /\ (Len(arg) = 1
               /\ arg[1] \in ({8721, 8719, 8720} \cup (8896 .. 8899)
                              \cup {10752, 10753, 10754, 10756, 10758}))
                 => ret.isSum
           /\ (\A k \in 1 .. Len(arg) : IsLetterOrDigit(arg[k]))
                 => (~ret.isIntegral /\ ~ret.isSum)
           /\ Len(arg) = 1 => ~(ret.isIntegral /\ ret.isSum)

C8_Witness ==
    /\ ClassifyDone
    /\ arg = <<8755>>
    /\ ret.isIntegral
    /\ ~ret.isSum

ConvertDone == pc = "done" /\ op = "convertLatexToMath"

\* C9: convertLatexToMath never throws, in either display mode, and when the
\* renderer throws it returns one text run holding the LaTeX source.
C9_RenderFailureFallsBack ==
    ConvertDone
        => /\ ~ret.thrown
           /\ arg.rendered.throws => ret.val = <<MathRun(arg.latex)>>

C9_Witness ==
    /\ ConvertDone
    /\ arg.rendered.throws
    /\ arg.displayMode
    /\ ret = Ok(<<MathRun(arg.latex)>>)
\* a call of walkNode on a node with positional slots has ended
SlotDone == pc = "done" /\ op = "walkNode" /\ arg.tagName \in SlotTags

SlotKinds(tag) ==
    CASE tag = "mfrac" -> {"frac"}
      [] tag = "msup" -> {"sup"}
      [] tag = "msub" -> {"sub"}
      [] tag = "msubsup" -> {"subsup", "nary"}
      [] tag = "mroot" -> {"rad"}
      [] tag = "mover" -> {"acc", "limUpp"}
      [] tag = "munder" -> {"limLow"}
      [] tag = "munderover" -> {"limLow", "nary"}

\* C11: a node with positional slots that has fewer children than slots, no
\* child at all included, is walked without an exception and gives exactly one
\* node, the primitive of its tag
C11_MissingChildrenGiveEmptySlots ==
    (SlotDone /\ Len(arg.children) < Slots(arg.tagName)) =>
        /\ ~ret.thrown
        /\ Len(ret.val) = 1
        /\ ret.val[1].kind \in SlotKinds(arg.tagName)
MdDone == pc = "done" /\ op = "parseMarkdown"

\* the sources whose conversion fails in some environment: a^1 when the
\* renderer throws or its markup does not parse, (a) inside the tree walker
FailingSources == {TxtA1, TxtParenA}

\* an environment where every source renders and is walked to the end
Reference ==
    [how |-> "none", failing |-> <<>>,
     render |-> (TxtA1 :> Markup[TxtA1])
                @@ (TxtParenA :> Elem("math", <<Elem("mrow", <<Mi(TxtA)>>)>>))]

\* what the spans of the failing sources convert to, failing or not
SpanOutputs(katex) ==
    {convertLatexToMath(latex, dm, renderToString(k, latex)).val :
        latex \in FailingSources, dm \in BOOLEAN, k \in {katex, Reference}}

\* the blocks with the content of those spans left out
MaskPart(part, katex) ==
    IF part.kind = "math" /\ part.children \in SpanOutputs(katex)
    THEN Math(<<>>) ELSE part
MaskBlock(block, katex) ==
    [block EXCEPT !.children = [j \in 1 .. Len(@) |-> MaskPart(@[j], katex)]]
Masked(blocks, katex) == [j \in 1 .. Len(blocks) |-> MaskBlock(blocks[j], katex)]

HasMath(blocks, content) ==
    \E j \in 1 .. Len(blocks) : \E k \in 1 .. Len(blocks[j].children) :
        blocks[j].children[k] = Math(content)

\* C12: when the conversion of a math span fails (the renderer throws, its
\* markup does not parse, or the tree walker raises an exception), parseMarkdown
\* still returns, and apart from the content of the failing spans its blocks
\* are the blocks, in the same order, of the document converted with no failure
C12_FailureDegradesOneSpan ==
    MdDone =>
        /\ ~ret.thrown
        /\ Masked(ret.val, arg.katex)
             = Masked(parseMarkdown(arg.lines, Reference).val, arg.katex)

\* a document with a heading, a span the renderer threw on (it fell back to its
\* source) and a span the walker threw on
C12_Witness ==
    /\ MdDone
    /\ arg.katex.how = "throw"
    /\ ~ret.thrown
    /\ Len(ret.val) = 3
    /\ HasMath(ret.val, <<MathRun(TxtA1)>>)
    /\ HasMath(ret.val, <<MathRun(TxtParenA)>>)
    /\ \E j \in 1 .. Len(ret.val) : ret.val[j].heading = 1
TableDone == pc = "done" /\ op = "walkNode" /\ arg.tagName = "mtable"

IsRow(child) == child.tagName = "mtr"
IsCell(cell) == cell.tagName = "mtd"

\* the walk of every cell of the table returns
CellsWalk(table) ==
    \A r \in 1 .. Len(table.children) :
        IsRow(table.children[r]) =>
            \A c \in 1 .. Len(table.children[r].children) :
                IsCell(table.children[r].children[c]) =>
                    ~walkNode(table.children[r].children[c]).thrown

\* C13: a table whose cells can be walked gives exactly one Matrix, with one
\* row node per table child in the same order and, in the row of a table-row,
\* one cell wrapper per row child in the same order holding the walked content
\* of that cell; a table child that is not a table-row gives a row without
\* cells and a row child that is not a table-cell gives an empty wrapper
C13_MatrixKeepsShape ==
    (TableDone /\ CellsWalk(arg)) =>
        /\ ~ret.thrown
        /\ Len(ret.val) = 1
        /\ ret.val[1].kind = "m"
        /\ Len(ret.val[1].rows) = Len(arg.children)
        /\ \A r \in 1 .. Len(arg.children) :
              /\ ret.val[1].rows[r].kind = "mr"
              /\ IF IsRow(arg.children[r])
                 THEN /\ Len(ret.val[1].rows[r].cells) = Len(arg.children[r].children)
                      /\ \A c \in 1 .. Len(arg.children[r].children) :
                            ret.val[1].rows[r].cells[c] =
                               MathElement(IF IsCell(arg.children[r].children[c])
                                           THEN walkNode(arg.children[r].children[c]).val
                                           ELSE <<>>)
                 ELSE ret.val[1].rows[r].cells = <<>>

\* a table of two rows of two row children has been walked: the first row has
\* two different cells, the second a child that is no cell before a cell
C13_Witness ==
    /\ TableDone
    /\ ~ret.thrown
    /\ Len(arg.children) = 2
    /\ \A r \in 1 .. 2 : IsRow(arg.children[r]) /\ Len(arg.children[r].children) = 2
    /\ \A c \in 1 .. 2 : IsCell(arg.children[1].children[c])
    /\ arg.children[1].children[1] # arg.children[1].children[2]
    /\ ~IsCell(arg.children[2].children[1])
    /\ IsCell(arg.children[2].children[2])
    /\ Len(ret.val[1].rows[2].cells) = 2
WalkDone == pc = "done" /\ op = "walkNode"

\* the input node has text content or at least one child
NonEmptyInput(node) == textContent(node) # <<>> \/ Len(node.children) > 0

\* the slots of an output primitive
SlotsOf(x) ==
    CASE x.kind = "frac" -> {x.numerator, x.denominator}
      [] x.kind = "sup" -> {x.children, x.superScript}
      [] x.kind = "sub" -> {x.children, x.subScript}
      [] x.kind = "subsup" -> {x.children, x.subScript, x.superScript}
      [] x.kind = "rad" -> {x.children}
      [] x.kind \in {"limUpp", "limLow"} -> {x.children, x.limit}
      [] x.kind = "acc" -> {x.children}
      [] x.kind = "nary" -> {x.baseElement, x.subScript, x.superScript}
      [] x.kind = "delim" -> {x.body}
      [] OTHER -> {}

\* C14: walkNode on a node that has text content or a child returns a list
\* that is not empty, and no slot of a primitive in it is empty (a slot with
\* no content holds the zero-width placeholder)
C14_NonEmptyInputGivesNonEmptyOutput ==
    (WalkDone /\ NonEmptyInput(arg) /\ ~ret.thrown) =>
        /\ Len(ret.val) > 0
        /\ \A k \in 1 .. Len(ret.val) : <<>> \notin SlotsOf(ret.val[k])
LeafTags == {"mi", "mn", "mo", "mtext", "ms"}
LeafDone == WalkDone /\ arg.tagName \in LeafTags

\* C15: whenever walkNode has been called on a single leaf (identifier, number,
\* operator, text, string literal), the first time or again, it has returned
\* exactly one text run whose text is the leaf's text content, unchanged
C15_LeafGivesOneRun ==
    LeafDone => ret = Ok(<<MathRun(textContent(arg))>>)

\* a text leaf whose text has a space inside has been walked
C15_Witness ==
    /\ LeafDone
    /\ arg.tagName = "mtext"
    /\ textContent(arg) = <<97, SPACE, 98>>
    /\ ret.val = <<MathRun(<<97, SPACE, 98>>)>>
RECURSIVE rowPrefix(_, _)
\* the row state a call run alone has after k iterations
rowPrefix(children, k) ==
    IF k = 0 THEN RowStart ELSE rowStep(rowPrefix(children, k - 1), children[k])

\* some node of the list is an N-ary operator whose body has content added
HasGrownNary(nodes) ==
    \E k \in 1 .. Len(nodes) : IsNary(nodes[k]) /\ Len(nodes[k].baseElement) > 1

\* C16: with two conversions in flight, interleaved in any way and repeated in
\* any order, each call's result and stack are at every moment what the call
\* run alone has at that iteration (so nothing is appended to its N-ary bodies
\* by the other call), and each call returns what it returns run alone
C16_CallsDoNotInterfere ==
    \A c \in Calls :
        /\ pc[c] = "row" => st[c] = rowPrefix(ParRoot(arg[c]).children, i[c] - 1)
        /\ pc[c] = "done" => ret[c] = mathmlToDocx(arg[c])

\* call 1 is inside its loop holding an N-ary operator it has appended to,
\* while call 2, on other markup, has returned one of its own
C16_Witness ==
    /\ pc[1] = "row" /\ i[1] = 3
    /\ HasGrownNary(st[1].result)
    /\ pc[2] = "done"
    /\ arg[2] # arg[1]
    /\ ~ret[2].thrown
    /\ HasGrownNary(ret[2].val)
\* C17: an ambiguous fence character closes the top frame when the stack is not
\* empty and the top frame was opened by the same character, and opens a new
\* frame otherwise; a row c x c gives exactly one Delimiter around x whose open
\* and close markers both come from c
C17_AmbiguousFenceClosesOrOpens ==
    [][/\ (/\ InLoop
           /\ isFence(RowChildren[i])
           /\ isAmbiguousChar(textContent(RowChildren[i])))
          => IF Len(st.stack) > 0
                /\ Top(st.stack).openChar = textContent(RowChildren[i])
             THEN st' = appendToTarget(Pop(st.stack), st.result,
                           <<FrameDelimiter(Top(st.stack),
                                 normalizeFence(textContent(RowChildren[i])))>>)
             ELSE st' = RowState(Append(st.stack, Frame(RowChildren[i],
                                                        textContent(RowChildren[i]))),
                                 st.result, FALSE)
       /\ (/\ pc = "row" /\ pc' = "done"
           /\ Len(RowChildren) = 3
           /\ RowChildren[1] \in AmbiguousFences
           /\ RowChildren[3] = RowChildren[1]
           /\ RowChildren[2] = Mi(TxtA))
          => ret' = Ok(<<MathDelimiter(<<MathRun(TxtA)>>,
                                       normalizeFence(textContent(RowChildren[1])),
                                       normalizeFence(textContent(RowChildren[1])))>>)]_vars
\* the container the next append goes to: the top frame's nodes, or the result
Target(s) == IF Len(s.stack) > 0 THEN Top(s.stack).children ELSE s.result

\* the next iteration appends exactly one walked node
AppendStep ==
    /\ InLoop
    /\ ~isFence(RowChildren[i])
    /\ ~walkNode(RowChildren[i]).thrown
    /\ Len(walkNode(RowChildren[i]).val) = 1

Item == walkNode(RowChildren[i]).val[1]

LastOf(nodes) == nodes[Len(nodes)]

RECURSIVE IntoDeepest(_, _)
\* the operator with the item added to the body of the deepest operator of
\* its trailing chain
IntoDeepest(nary, item) ==
    IF IsNary(LastOf(nary.baseElement))
    THEN [nary EXCEPT !.baseElement =
             SubSeq(@, 1, Len(@) - 1) \o <<IntoDeepest(LastOf(@), item)>>]
    ELSE [nary EXCEPT !.baseElement = @ \o <<item>>]

RECURSIVE DeepestBody(_)
DeepestBody(nary) ==
    IF IsNary(LastOf(nary.baseElement)) THEN DeepestBody(LastOf(nary.baseElement))
    ELSE nary.baseElement

\* C18 as stated: the content is diverted into the trailing N-ary chain only
\* while the body it would go to is still the placeholder alone, and is a
\* sibling in every other case
C18_AbsorbsOnlyIntoEmptyBody ==
    [][AppendStep =>
         IF /\ Len(Target(st)) > 0
            /\ IsNary(LastOf(Target(st)))
            /\ DeepestBody(LastOf(Target(st))) = <<Placeholder>>
         THEN Target(st') = SubSeq(Target(st), 1, Len(Target(st)) - 1)
                              \o <<IntoDeepest(LastOf(Target(st)), Item)>>
         ELSE Target(st') = Append(Target(st), Item)]_vars

\* C18: in the append step the content is diverted into an N-ary operator's
\* body exactly when the last node of the target container is an N-ary
\* operator, whatever its body already holds, and goes to the deepest operator
\* of the trailing chain; with an empty container or another last node it is
\* appended as a sibling
C18_AbsorbsWheneverLastIsNary ==
    [][AppendStep =>
         /\ Len(st'.stack) = Len(st.stack)
         /\ IF Len(Target(st)) > 0 /\ IsNary(LastOf(Target(st)))
            THEN Target(st') = SubSeq(Target(st), 1, Len(Target(st)) - 1)
                                 \o <<IntoDeepest(LastOf(Target(st)), Item)>>
            ELSE Target(st') = Append(Target(st), Item)]_vars

\* the loop has appended a third node to a row whose N-ary operator already
\* held content: the operator is still alone and its body holds both
C18_Witness ==
    /\ pc = "row"
    /\ i = 4
    /\ st.stack = <<>>
    /\ Len(st.result) = 1
    /\ IsNary(st.result[1])
    /\ st.result[1].baseElement = <<Placeholder, MathRun(TxtA), MathRun(TxtA)>>
\* the walked output of the k-th child (k from 1), empty when there is none
Walked(node, k) == walkNode(ChildAt(node.children, k)).val

\* the node has a base and each of its children can be walked
BaseAndWalks(node) ==
    /\ Len(node.children) >= 1
    /\ \A k \in 1 .. Len(node.children) : ~walkNode(node.children[k]).thrown

FamilyBase(node) ==
    isIntegral(textContent(node.children[1])) \/ isSum(textContent(node.children[1]))

\* an N-ary operator whose body holds the placeholder alone
EmptyNary(char, limitLocation, sub, sup) ==
    [kind |-> "nary", char |-> char, limitLocation |-> limitLocation,
     subScript |-> sub, superScript |-> sup, baseElement |-> <<Placeholder>>]

\* C19: a sub+superscript node whose base text is integral- or sum-family gives
\* exactly one N-ary operator: its character is the base text, its limits are
\* placed subSup, its subscript is the walked second child, its superscript the
\* walked third child, its body is the placeholder alone; with any other base
\* it gives one SubSuperScript of the walked base, second and third child
C19_SubSupOfOperatorIsNary ==
    (WalkDone /\ arg.tagName = "msubsup" /\ BaseAndWalks(arg)) =>
        ret = Ok(<<IF FamilyBase(arg)
                   THEN EmptyNary(textContent(arg.children[1]), "subSup",
                                  Walked(arg, 2), Walked(arg, 3))
                   ELSE [kind |-> "subsup", children |-> Walked(arg, 1),
                         subScript |-> Walked(arg, 2),
                         superScript |-> Walked(arg, 3)]>>)

\* a summation sign with a lower and an upper limit has been walked
C19_Witness ==
    /\ WalkDone
    /\ arg.tagName = "msubsup"
    /\ Len(arg.children) = 3
    /\ isSum(textContent(arg.children[1]))
    /\ ~ret.thrown
    /\ IsNary(ret.val[1])
    /\ ret.val[1].subScript # <<>>
    /\ ret.val[1].superScript # <<>>

\* C20: an under+over node whose base text is integral- or sum-family gives
\* exactly one N-ary operator with limits placed undOvr, the walked under child
\* (the second) as subscript, the walked over child (the third) as superscript
\* and the placeholder alone as body; with any other base it gives
\* LimitLower(LimitUpper(base, over), under)
C20_UnderOverOfOperatorIsNary ==
    (WalkDone /\ arg.tagName = "munderover" /\ BaseAndWalks(arg)) =>
        ret = Ok(<<IF FamilyBase(arg)
                   THEN EmptyNary(textContent(arg.children[1]), "undOvr",
                                  Walked(arg, 2), Walked(arg, 3))
                   ELSE [kind |-> "limLow",
                         children |-> <<[kind |-> "limUpp",
                                         children |-> Walked(arg, 1),
                                         limit |-> Walked(arg, 3)]>>,
                         limit |-> Walked(arg, 2)]>>)

\* an integral sign with different under and over children has been walked
C20_Witness ==
    /\ WalkDone
    /\ arg.tagName = "munderover"
    /\ Len(arg.children) = 3
    /\ isIntegral(textContent(arg.children[1]))
    /\ arg.children[2] # arg.children[3]
    /\ ~ret.thrown
    /\ IsNary(ret.val[1])
    /\ ret.val[1].limitLocation = "undOvr"
    /\ ret.val[1].subScript # ret.val[1].superScript
RECURSIVE Markers(_)
\* the open and close markers of every Delimiter of a forest, at any depth
Markers(nodes) ==
    UNION {(IF nodes[k].kind = "delim" THEN {nodes[k].begChr, nodes[k].endChr}
            ELSE {})
           \cup UNION {Markers(slot) : slot \in SlotsOf(nodes[k])} :
           k \in 1 .. Len(nodes)}

\* the markers of the Delimiters a row state holds, in its frames and its result
StateMarkers(s) ==
    Markers(s.result) \cup UNION {Markers(s.stack[j].children) : j \in 1 .. Len(s.stack)}

RawMarkers == {Str(DOT), Str(DIVIDES)}

\* C21: no Delimiter made by the row resolver has '.' or the divides sign as a
\* marker: not in the frames and the result during the loop, not after the
\* auto-close of the frames above a pairing frame, not in what the row returns;
\* a '.' fence has become the empty marker and a divides fence the bar
C21_MarkersAreNormalized ==
    /\ pc = "row" => StateMarkers(st) \cap RawMarkers = {}
    /\ (InLoop /\ isFence(RowChildren[i])) =>
          StateMarkers(mismatchedClose(st, textContent(RowChildren[i]),
                           fenceAction(st.stack, textContent(RowChildren[i]))))
             \cap RawMarkers = {}
    /\ (RowDone /\ ~ret.thrown) => Markers(ret.val) \cap RawMarkers = {}
    /\ (RowDone /\ ~ret.thrown /\ Len(RowChildren) = 2
        /\ RowChildren[1] = RowChildren[2]
        /\ RowChildren[1] \in AmbiguousFences
        /\ textContent(RowChildren[1]) \in {Str(DOT), Str(DIVIDES), Str(VBAR)})
          => ret.val = <<MathDelimiter(<<>>,
                           IF textContent(RowChildren[1]) = Str(DOT) THEN <<>>
                           ELSE Str(VBAR),
                           IF textContent(RowChildren[1]) = Str(DOT) THEN <<>>
                           ELSE Str(VBAR))>>

\* a row of two divides fences has given a Delimiter with bars
C21_Witness ==
    /\ RowDone
    /\ Len(RowChildren) = 2
    /\ textContent(RowChildren[1]) = Str(DIVIDES)
    /\ textContent(RowChildren[2]) = Str(DIVIDES)
    /\ ret = Ok(<<MathDelimiter(<<>>, Str(VBAR), Str(VBAR))>>)

\* the frame of a '.' fence has been closed by a ')' that pairs with the frame
\* below it
C21_AutoCloseSeen ==
    /\ InLoop
    /\ isFence(RowChildren[i])
    /\ Len(st.stack) = 2
    /\ Top(st.stack).openChar = Str(DOT)
    /\ Len(mismatchedClose(st, textContent(RowChildren[i]),
                           fenceAction(st.stack, textContent(RowChildren[i]))).stack) = 1
RECURSIVE Grown(_, _)
\* new is old with, at most, nodes added at the end of the bodies of N-ary
\* operators: every other slot of every node is as it was, and nothing that a
\* body held has been removed or moved
Grown(old, new) ==
    \/ old = new
    \/ /\ IsNary(old) /\ IsNary(new)
       /\ [new EXCEPT !.baseElement = old.baseElement] = old
       /\ Len(new.baseElement) >= Len(old.baseElement)
       /\ \A k \in 1 .. Len(old.baseElement) :
             Grown(old.baseElement[k], new.baseElement[k])

\* the list has kept its nodes, in place, each one grown at most
GrownList(old, new) ==
    /\ Len(new) >= Len(old)
    /\ \A k \in 1 .. Len(old) : Grown(old[k], new[k])

\* the list has kept its nodes exactly as they were
KeptList(old, new) == Len(new) >= Len(old) /\ SubSeq(new, 1, Len(old)) = old

\* a step of the row's loop or of its end that does not throw
RowMove == pc = "row" /\ ~st'.thrown

\* the frames that are on the stack before and after the step
Staying == 1 .. (IF Len(st'.stack) < Len(st.stack) THEN Len(st'.stack) ELSE Len(st.stack))

\* C22 as stated: a node is never changed once the walkNode call that made it
\* has returned it, so what the result and the frames hold stays exactly as it is
C22_NoChangeAfterReturn ==
    [][RowMove =>
         /\ KeptList(st.result, st'.result)
         /\ \A j \in Staying : KeptList(st.stack[j].children, st'.stack[j].children)]_vars

\* C22: the only change made to a node that exists already is an append to the
\* body of an N-ary operator: no body loses or moves an element, no other slot
\* of any node changes; the appends are made by the row that holds the operator,
\* after the walkNode call that made the operator has returned it, and only
\* while that row is being resolved: a finished call's outcome does not change
C22_OnlyNaryBodiesGrow ==
    [][/\ RowMove =>
            /\ GrownList(st.result, st'.result)
            /\ \A j \in Staying :
                  GrownList(st.stack[j].children, st'.stack[j].children)
       /\ (pc = "row" /\ pc' = "done" /\ ~st'.thrown) => ret' = Ok(st'.result)
       /\ (pc = "done" /\ pc' = "done") => ret' = ret]_vars

\* the operator that walkNode returned for the first sibling has been changed
\* by the next iteration of the row: its body holds the second sibling
C22_Witness ==
    /\ pc = "row"
    /\ i = 3
    /\ ~walkNode(RowChildren[1]).thrown
    /\ walkNode(RowChildren[1]).val = <<EmptyNary(TxtInt, "subSup",
                                                  <<MathRun(Txt1)>>, <<MathRun(TxtA)>>)>>
    /\ st.result = <<[walkNode(RowChildren[1]).val[1] EXCEPT
                        !.baseElement = <<Placeholder, MathRun(TxtA)>>]>>
\* the root tag, the style group, and a tag outside the vocabulary
FlattenedTags == {"math", "mstyle", "mpadded"}

ChildrenWalk(node) ==
    \A k \in 1 .. Len(node.children) : ~walkNode(node.children[k]).thrown

\* C23: a node of an unknown tag, the root tag or the style-group tag, whose
\* children can be walked, gives exactly the outputs of walkNode on its
\* children, one after the other in the children's order: nothing wraps them,
\* nothing is left out, nothing is thrown
C23_UnknownTagFlattens ==
    (WalkDone /\ arg.tagName \in FlattenedTags /\ ChildrenWalk(arg)) =>
        ret = Ok(WalkedOutputs(arg.children, 1))

\* a node of an unknown tag with three children has been walked
C23_Witness ==
    /\ WalkDone
    /\ arg.tagName = "mpadded"
    /\ Len(arg.children) = 3
    /\ ret = Ok(<<MathRun(TxtA), MathRun(Str(SPACE)), MathRun(Txt1)>>)
FencedDone == WalkDone /\ arg.tagName = "mfenced"

\* the attribute's value, or the default when the attribute is absent
ValueOr(attr, dflt) == IF attr = <<>> THEN dflt ELSE attr[1]

\* C24: a native fenced group whose children can be walked gives exactly one
\* Delimiter: its body is the walked children in order, its open marker is the
\* value of the open attribute, or ( when that attribute is absent, and its
\* close marker is the value of the close attribute, or ) when that is absent
C24_FencedGroupUsesItsAttributes ==
    (FencedDone /\ ChildrenWalk(arg)) =>
        ret = Ok(<<[kind |-> "delim", body |-> WalkedOutputs(arg.children, 1),
                    begChr |-> ValueOr(arg.open, Str(LPAREN)),
                    endChr |-> ValueOr(arg.close, Str(RPAREN))]>>)
\* the next step closes the top frame: the sibling is a fence that acts as a
\* closer, or the row has ended with frames left.  On each of these paths
\* (closeTop, autoClose, rowFinish) the step begins with walkChildren of the
\* top frame's accumulated nodes
ClosingNext ==
    /\ pc = "row"
    /\ Len(st.stack) > 0
    /\ \/ i > Len(RowChildren)
       \/ /\ i <= Len(RowChildren)
          /\ isFence(RowChildren[i])
          /\ fenceAction(st.stack, textContent(RowChildren[i])) = "close"

\* C25: whenever a frame is about to be closed (matched close, auto-close,
\* end-of-row close), the nodes that the close hands to walkChildren, and so to
\* walkNode, are nodes of the input tree: no converted output node is among them
C25_OnlyInputNodesAreWalked ==
    ClosingNext =>
        \A k \in 1 .. Len(Top(st.stack).children) :
            IsElement(Top(st.stack).children[k])
RECURSIVE ForestReading(_)
\* the depth-first, left-to-right reading of a forest through Delimiter bodies
\* and N-ary bodies: a Delimiter stands for what its body holds, an N-ary
\* operator for itself (its body set back to the placeholder) and then for what
\* its body holds
ForestReading(nodes) ==
    IF nodes = <<>> THEN <<>>
    ELSE (IF IsNary(Head(nodes))
          THEN <<[Head(nodes) EXCEPT !.baseElement = <<Placeholder>>]>>
               \o ForestReading(Tail(Head(nodes).baseElement))
          ELSE IF Head(nodes).kind = "delim" THEN ForestReading(Head(nodes).body)
          ELSE <<Head(nodes)>>)
         \o ForestReading(Tail(nodes))

RECURSIVE NonFenceOutputs(_, _)
\* the walked outputs of the siblings from k on that are no fence, in input order
NonFenceOutputs(children, k) ==
    IF k > Len(children) THEN <<>>
    ELSE (IF isFence(children[k]) THEN <<>> ELSE walkNode(children[k]).val)
         \o NonFenceOutputs(children, k + 1)

\* a text run that a fence sibling has become
IsFenceRun(x) == x.kind = "run" /\ isFence(Mo(x.text))

RECURSIVE WithoutFenceRuns(_)
WithoutFenceRuns(nodes) ==
    IF nodes = <<>> THEN <<>>
    ELSE (IF IsFenceRun(Head(nodes)) THEN <<>> ELSE <<Head(nodes)>>)
         \o WithoutFenceRuns(Tail(nodes))

\* every sibling that is no fence can be walked
SiblingsWalk(children) ==
    \A k \in 1 .. Len(children) :
        isFence(children[k]) \/ ~walkNode(children[k]).thrown

\* C26: a row whose non-fence siblings can be walked returns a forest, and the
\* depth-first left-to-right reading of that forest lists the walked outputs of
\* the non-fence siblings, each exactly once, in input order
C26_RowKeepsSiblingsInOrder ==
    (RowDone /\ SiblingsWalk(RowChildren)) =>
        /\ ~ret.thrown
        /\ WithoutFenceRuns(ForestReading(ret.val))
             = ForestReading(NonFenceOutputs(RowChildren, 1))

\* the same for the rows that return
RowsThatReturnKeepOrder ==
    (RowDone /\ ~ret.thrown) =>
        WithoutFenceRuns(ForestReading(ret.val))
          = ForestReading(NonFenceOutputs(RowChildren, 1))

RECURSIVE Delimiters(_)
\* the number of Delimiters of a forest, counted through Delimiter bodies and
\* N-ary bodies
Delimiters(nodes) ==
    IF nodes = <<>> THEN 0
    ELSE (IF IsNary(Head(nodes)) THEN Delimiters(Head(nodes).baseElement)
          ELSE IF Head(nodes).kind = "delim"
          THEN 1 + Delimiters(Head(nodes).body)
          ELSE 0)
         + Delimiters(Tail(nodes))

RECURSIVE HeldDelimiters(_)
\* the Delimiters held by the frames of a stack
HeldDelimiters(stack) ==
    IF stack = <<>> THEN 0
    ELSE Delimiters(Head(stack).children) + HeldDelimiters(Tail(stack))

\* the positions among the first n siblings whose fence acted as an opener
Openers(children, n) ==
    {k \in 1 .. n :
        /\ isFence(children[k])
        /\ fenceAction(rowPrefix(children, k - 1).stack, textContent(children[k]))
             = "open"}

\* the Delimiters that the first n siblings bring along in their own outputs
Brought(children, n) == Delimiters(NonFenceOutputs(SubSeq(children, 1, n), 1))

\* the frames pushed so far are the frames still open and the Delimiters made
Balanced(children, n, stack, result) ==
    Len(stack) + HeldDelimiters(stack) + Delimiters(result)
      = Cardinality(Openers(children, n)) + Brought(children, n)

\* C27: in a row whose non-fence siblings can be walked, the resolver takes
\* the siblings one at a time and never leaves by an exception; at every
\* iteration each frame pushed so far is either still on the stack or has
\* become exactly one Delimiter; and the row returns with the stack empty and
\* with as many Delimiters of its own as fences acted as openers
C27_StackDiscipline ==
    /\ (pc = "row" /\ SiblingsWalk(RowChildren)) =>
           /\ i \in 1 .. Len(RowChildren) + 1
           /\ Balanced(RowChildren, i - 1, st.stack, st.result)
    /\ (RowDone /\ SiblingsWalk(RowChildren)) =>
           /\ ~ret.thrown
           /\ st.stack = <<>>
           /\ Balanced(RowChildren, Len(RowChildren), <<>>, ret.val)

\* the same for the iterations reached and the rows that return
RowsThatReturnKeepDiscipline ==
    /\ pc = "row" =>
           /\ i \in 1 .. Len(RowChildren) + 1
           /\ Balanced(RowChildren, i - 1, st.stack, st.result)
    /\ (RowDone /\ ~ret.thrown) =>
           /\ st.stack = <<>>
           /\ Balanced(RowChildren, Len(RowChildren), <<>>, ret.val)

RECURSIVE NarySource(_)
\* the input node, or a node below it, is a sub+superscript or under+over node
\* whose first child is an integral or summation sign
NarySource(node) ==
    \/ /\ node.tagName \in {"msubsup", "munderover"}
       /\ Len(node.children) > 0
       /\ \/ isIntegral(textContent(node.children[1]))
          \/ isSum(textContent(node.children[1]))
    \/ \E k \in 1 .. Len(node.children) : NarySource(node.children[k])

RECURSIVE NaryInside(_)
\* the forest holds an N-ary operator, at the top or inside any slot
NaryInside(nodes) ==
    \E k \in 1 .. Len(nodes) :
        \/ IsNary(nodes[k])
        \/ \E slot \in SlotsOf(nodes[k]) : NaryInside(slot)
        \/ nodes[k].kind = "m" /\ NaryInside(nodes[k].rows)
        \/ nodes[k].kind = "mr" /\ NaryInside(nodes[k].cells)
        \/ nodes[k].kind = "e" /\ NaryInside(nodes[k].children)

NoFences(children) == \A k \in 1 .. Len(children) : ~isFence(children[k])

\* C28: an input with no sub+superscript or under+over node on an integral or
\* summation base gives no N-ary operator anywhere in its output; and a row
\* of such siblings, none of them a fence, returns the siblings' outputs side
\* by side in input order: nothing is absorbed into anything
C28_NaryOnlyFromBothLimits ==
    /\ ((WalkDone \/ RowDone) /\ ~NarySource(arg)) => ~NaryInside(ret.val)
    /\ (RowDone /\ ~NarySource(arg) /\ NoFences(RowChildren)
          /\ SiblingsWalk(RowChildren)) =>
           ret = Ok(WalkedOutputs(RowChildren, 1))

\* a row has returned whose first sibling is an over-only node on an integral
\* sign and whose second sibling stands beside it in the result
C28_Witness ==
    /\ RowDone
    /\ Len(RowChildren) = 2
    /\ RowChildren[1].tagName = "mover"
    /\ isIntegral(textContent(RowChildren[1].children[1]))
    /\ ret = Ok(<<MathLimitUpper(<<MathRun(TxtInt)>>, <<MathRun(Txt1)>>),
                  MathRun(TxtA)>>)

\* parseMarkdown is between two lines, or has left the loop
MdRunning == op = "parseMarkdown" /\ pc \in {"md", "done"}

\* at most one of the two buffers holds lines, the one the flag names
BuffersExclusive ==
    MdRunning =>
        /\ st.inBlockMath => st.currentParagraphLines = <<>>
        /\ ~st.inBlockMath => st.blockMathContent = <<>>

\* the paragraph that pending lines become
PendingParagraph(lines, katex) ==
    Paragraph(parseInline(join(lines, <<SPACE>>), NoStyle, katex).val, 0, "none")

\* one line is processed, or the loop is left: the blocks already put out stay
\* where they are; a step that puts out a block leaves no line pending, and
\* when lines were pending the first block it puts out is their paragraph;
\* pending lines go away only by becoming a paragraph
FlushFirst ==
    (pc = "md" /\ pc' \in {"md", "done"}) =>
        /\ Len(st'.children) >= Len(st.children)
        /\ SubSeq(st'.children, 1, Len(st.children)) = st.children
        /\ Len(st'.children) > Len(st.children) =>
              /\ st'.currentParagraphLines = <<>>
              /\ st.currentParagraphLines # <<>> =>
                    st'.children[Len(st.children) + 1]
                      = PendingParagraph(st.currentParagraphLines, arg.katex)
        /\ (st.currentParagraphLines # <<>> /\ st'.currentParagraphLines = <<>>) =>
              Len(st'.children) > Len(st.children)

\* C29: after every processed line of parseMarkdown, block math open means no
\* paragraph line is pending and block math closed means no math line is
\* held; and every step appends to the output only, putting the paragraph of
\* the pending lines before the heading or math block of the line at hand
C29_BuffersAndFlushOrder == [](BuffersExclusive) /\ [][FlushFirst]_vars

\* a text line, then a heading, then an opening $$ have been processed: the
\* paragraph stands before the heading and both buffers are empty
C29_Witness ==
    /\ pc = "md"
    /\ i = 4
    /\ arg.lines[2] = <<HASH, SPACE, 98>>
    /\ st.inBlockMath
    /\ st.currentParagraphLines = <<>>
    /\ Len(st.children) = 2
    /\ st.children[1].heading = 0
    /\ st.children[1].children # <<>>
    /\ st.children[2].heading = 1

\* a block of display math: the centred paragraph createMathBlock makes
IsMathBlock(block) == block.alignment = "center"

MathBlocks(children) ==
    Cardinality({k \in 1 .. Len(children) : IsMathBlock(children[k])})

\* the step at hand puts out a math block
EmitsMathBlock == MathBlocks(st'.children) > MathBlocks(st.children)

\* the step at hand processes a line (the loop has not ended)
AtLine == pc = "md" /\ i <= Len(arg.lines)

\* the line at hand is $$ alone and closes a block that holds content
ClosesBlock ==
    /\ AtLine
    /\ trim(arg.lines[i]) = <<DOLLAR, DOLLAR>>
    /\ st.inBlockMath
    /\ Len(st.blockMathContent) > 0

\* the line at hand is a one-line $$...$$ met outside block math
OneLineBlock ==
    /\ AtLine
    /\ ~st.inBlockMath
    /\ Len(trim(arg.lines[i])) > 4
    /\ SubSeq(trim(arg.lines[i]), 1, 2) = <<DOLLAR, DOLLAR>>
    /\ SubSeq(trim(arg.lines[i]), Len(trim(arg.lines[i])) - 1, Len(trim(arg.lines[i])))
         = <<DOLLAR, DOLLAR>>

\* the input ends inside block math: the output is what it was, so the held
\* lines are in no block
UnterminatedDropped ==
    (pc = "md" /\ i > Len(arg.lines) /\ st.inBlockMath) =>
        /\ st'.children = st.children
        /\ ret' = Ok(st.children)

\* inside block math every line that is not $$ alone (a heading, a blank
\* line, a one-line $$...$$, anything) is held as math content, and nothing
\* is put out
HeldWhileInBlock ==
    (AtLine /\ st.inBlockMath /\ trim(arg.lines[i]) # <<DOLLAR, DOLLAR>>) =>
        /\ st'.blockMathContent = Append(st.blockMathContent, arg.lines[i])
        /\ st'.children = st.children
        /\ st'.inBlockMath

\* C30 as stated: a math block is put out only at a closing $$ line with
\* content held; an unterminated block is dropped; inside block math lines
\* are held
C30_MathBlockOnlyAtClosingFence ==
    [][/\ (pc = "md" /\ EmitsMathBlock) => ClosesBlock
       /\ UnterminatedDropped
       /\ HeldWhileInBlock]_vars

\* C30, amended: a math block is put out exactly at a closing $$ line with
\* content held and at a one-line $$...$$ met outside block math, one block
\* each time; an unterminated block is dropped; inside block math lines are
\* held
C30_MathBlockAtClosingFenceOrOneLine ==
    [][/\ (pc = "md" /\ EmitsMathBlock) => (ClosesBlock \/ OneLineBlock)
       /\ (ClosesBlock \/ OneLineBlock) =>
             MathBlocks(st'.children) = MathBlocks(st.children) + 1
       /\ UnterminatedDropped
       /\ HeldWhileInBlock]_vars

\* $$, a heading line and $$ have been processed: the heading was held as
\* math content and the closing $$ has put out the one math block
C30_Witness ==
    /\ pc = "md"
    /\ i = 4
    /\ arg.lines = <<<<DOLLAR, DOLLAR>>, <<HASH, SPACE, 98>>, <<DOLLAR, DOLLAR>>>>
    /\ ~st.inBlockMath
    /\ st.blockMathContent = <<>>
    /\ Len(st.children) = 1
    /\ IsMathBlock(st.children[1])
====
